---- MODULE Spec2Model ----
(***************************************************************************)
(* A model of aisdk-codex: the credential session manager in refresh-token *)
(* mode (createCodex, ensureRefreshSession) and in file-based mode         *)
(* (CodexAuth), and the response protocol translator (CodexLanguageModel   *)
(* doStream / doGenerate).                                                 *)
(*                                                                         *)
(* JavaScript is single-threaded: an action is one run-to-completion block *)
(* of code between two suspension points (an await, or an I/O completion). *)
(* A promise that settles does not resume its awaiters in the same block:  *)
(* each awaiter's continuation is a later action, a microtask.  Microtasks *)
(* run before the event loop delivers the next I/O completion; a call of   *)
(* getHeaders may come from a microtask of the application, at any point.  *)
(***************************************************************************)
EXTENDS Integers, Sequences, FiniteSets, TLC

(***************************************************************************)
(* Bounds of the model.                                                    *)
(***************************************************************************)
\* concurrent callers of getHeaders on one provider instance
NCallers == 2
\* token-exchange calls per behaviour
MaxExchanges == 2
\* clock steps of half an hour each
MaxTicks == 2
\* the identity token's exp claim ranges over 1..MaxExpHalfHours half hours
MaxExpHalfHours == 3
\* records of one response body
MaxRecords == 4
\* records of the response bodies of two concurrent calls, together
MaxRequestRecords == 3
\* messages of one prompt
MaxMessages == 3

\* 60 * 60 * 1000, the safety margin in milliseconds
OneHourMs == 3600000

Callers == 1..NCallers
PromiseIds == 1..MaxExchanges

\* one clock step, in milliseconds
TickMs == OneHourMs \div 2
\* the values of the identity token's exp claim, in seconds
ExpSeconds == {k * 1800 : k \in 1..MaxExpHalfHours}

VARIABLES
    options,                \* the provider settings: which of apiKey, refreshToken, useApiKey are set,
                            \* and the custom headers
    now,                    \* Date.now(), in milliseconds
    env,                    \* process.env: is OPENAI_API_KEY set
    lastHeaders,            \* the header set getHeaders returned last, or NoHeaders
    \* ---- refresh-token mode: the closure state of createCodex ----
    refreshSession,         \* the session, or NoSession (null)
    refreshSessionPromise,  \* the in-flight slot: a promise id, or 0 (null)
    rtPromise,              \* promise id -> "unborn" | "pending" | "fulfilled" | "rejected"
    rtSent,                 \* the refresh token sent by each exchange call, in call order
    rtReceived,             \* promise id -> the token endpoint's answer to its exchange call
    rtPc,                   \* caller -> position in getHeaders / ensureRefreshSession
    rtAwait,                \* caller -> the promise it awaits (0: none)
    rtPath,                 \* caller -> what its current call did: "none" | "fast" | "join" | "start"
    rtReturned,             \* the outcome of the call that completed last
    \* ---- file-based mode: the static state of CodexAuth, and the auth file ----
    authFile,               \* the record stored in ~/.codex/auth.json, or NoFile
    faHeap,                 \* object id -> the AuthDotJson object parsed from a read
    cachedAuth,             \* CodexAuth.cachedAuth: an object id, or 0 (null)
    refreshPromise,         \* CodexAuth.refreshPromise: a promise id, or 0 (null)
    faPromise,              \* promise id -> "unborn" | "pending" | "fulfilled" | "rejected"
    faSent,                 \* the refresh token sent by each exchange call, in call order
    faPc,                   \* caller -> position in CodexAuth.getHeaders
    faAwait,                \* caller -> the promise it awaits (0: none)
    faLoad,                 \* thread -> state of its pending loadAuthJson call
    faLocal,                \* caller -> getAccessToken's `auth` (an object id), its result, and
                            \* what the call did: "none" | "fresh" | "plain" | "refresh"
    faTask,                 \* the running doRefreshToken call: its position, its promise, its
                            \* `auth` and `tokenResponse`, the text it writes
    \* ---- the translator: one response body, translated both ways ----
    includeRawChunks,       \* options.includeRawChunks of the doStream call
    transport,              \* the request: the fetch calls made for it, and how far it is
    sse,                    \* the records consumed so far: how many, how many with data, ended
    stream,                 \* doStream: the transform's closure state and the parts enqueued
    buffered,               \* doGenerate: the locals of its read loop
    \* ---- the language model: concurrent calls on one handle, and the prompt ----
    requests,               \* request id -> a doStream or doGenerate call: its options, its
                            \* position, its own locals, and the records its body has delivered
    prompt,                 \* the conversation handed to convertToCodexInput
    converted               \* what convertToCodexInput returned, or NotConverted

rtVars == <<refreshSession, refreshSessionPromise, rtPromise, rtSent, rtReceived,
            rtPc, rtAwait, rtPath, rtReturned>>

faVars == <<authFile, faHeap, cachedAuth, refreshPromise, faPromise, faSent,
            faPc, faAwait, faLoad, faLocal, faTask>>

trVars == <<includeRawChunks, transport, sse, stream, buffered, requests, prompt, converted>>

vars == <<options, env, lastHeaders, now, rtVars, faVars, trVars>>

(***************************************************************************)
(* The provider's getHeaders: the choice of the auth mode, and the header  *)
(* sets.  A header set is a function from header names to values; a value  *)
(* is a bearer credential, an account id or a literal text.                *)
(***************************************************************************)
\* a choice that looks at useApiKey before refreshToken
AuthModeEnvFirst(opts) ==
    IF opts.apiKey THEN "apiKey"
    ELSE IF opts.useApiKey THEN "useApiKey"
    ELSE IF opts.refreshToken THEN "refreshToken"
    ELSE "file"

\* the if chain of getHeaders: options.apiKey, options.refreshToken,
\* options.useApiKey, else ~/.codex/auth.json
AuthMode(opts) ==
    IF opts.apiKey THEN "apiKey"
    ELSE IF opts.refreshToken THEN "refreshToken"
    ELSE IF opts.useApiKey THEN "useApiKey"
    ELSE "file"

\* `Bearer ${credential}`: src names where the credential comes from, n
\* tells two credentials of one source apart
Bearer(src, n) == [kind |-> "bearer", src |-> src, n |-> n, text |-> ""]
AccountId(src, n) == [kind |-> "account", src |-> src, n |-> n, text |-> ""]
Text(s) == [kind |-> "text", src |-> "", n |-> 0, text |-> s]

\* the empty header set; also the value of lastHeaders before any return
NoHeaders == [k \in {} |-> Text("")]

\* { ...a, ...b }: the keys of b override those of a
Spread(a, b) == [k \in DOMAIN a \cup DOMAIN b |-> IF k \in DOMAIN b THEN b[k] ELSE a[k]]

\* the values of options.headers: none, or a set that names Authorization
\* and Content-Type and adds a header of its own
CustomHeaderSets ==
    {NoHeaders,
     ("Authorization" :> Text("custom")) @@ ("Content-Type" :> Text("text/plain"))
        @@ ("x-custom" :> Text("1"))}

\* { Authorization: `Bearer ${key}`, 'Content-Type': 'application/json' }
KeyPair(src) ==
    ("Authorization" :> Bearer(src, 0)) @@ ("Content-Type" :> Text("application/json"))

\* { originator: 'codex', accept: 'text/event-stream' }
CodexPair == ("originator" :> Text("codex")) @@ ("accept" :> Text("text/event-stream"))

\* the return of the apiKey branch and of the useApiKey branch:
\* { ...options.headers, Authorization, 'Content-Type' }
KeyHeaders(src, custom) == Spread(custom, KeyPair(src))

\* the return of the refreshToken branch
RefreshHeaders(session, custom) ==
    Spread(Spread(("Authorization" :> Bearer("session", session.accessToken))
                    @@ ("chatgpt-account-id" :> AccountId("session", session.accountId))
                    @@ ("Content-Type" :> Text("application/json")),
                  CodexPair),
           custom)

\* the return of CodexAuth.getHeaders
CodexAuthHeaders(token, account) ==
    ("Authorization" :> Bearer(token.kind, token.gen))
        @@ ("chatgpt-account-id" :> AccountId(account.kind, account.gen))
        @@ ("Content-Type" :> Text("application/json"))

\* the return of the default branch:
\* { ...authHeaders, originator, accept, ...options.headers }
FileHeaders(authHeaders, custom) == Spread(Spread(authHeaders, CodexPair), custom)

\* getHeaders() is called with options.apiKey: it returns without an await
KeyCall ==
    /\ AuthMode(options) = "apiKey"
    /\ lastHeaders' = KeyHeaders("apiKey", options.headers)
    /\ UNCHANGED <<options, env, now, rtVars, faVars, trVars>>

\* getHeaders() is called with options.useApiKey: loadApiKey returns the
\* value of OPENAI_API_KEY, or throws when the variable is not set
EnvCall ==
    /\ AuthMode(options) = "useApiKey"
    /\ lastHeaders' = IF env THEN KeyHeaders("env", options.headers) ELSE lastHeaders
    /\ UNCHANGED <<options, env, now, rtVars, faVars, trVars>>

(***************************************************************************)
(* Refresh-token mode.                                                     *)
(***************************************************************************)
NoSession == [present |-> FALSE]
\* expiresAt: number | null
NullExpiry == [known |-> FALSE, at |-> 0]
KnownExpiry(ms) == [known |-> TRUE, at |-> ms]

\* refresh tokens are named by a number: 0 is options.refreshToken, k > 0 is
\* the token the k-th exchange returned
OptionsRefreshToken == [rotation |-> 0]
RotatedToken(k) == [rotation |-> k]

NoResult == [kind |-> "none"]
\* getHeaders of caller c threw
ErrorResult(c) == [kind |-> "error", caller |-> c]
\* getHeaders of caller c returned the headers built from session
HeadersResult(c, session) ==
    IF session.present
    THEN [kind |-> "headers", caller |-> c,
          Authorization |-> session.accessToken, accountId |-> session.accountId]
    ELSE [kind |-> "typeError", caller |-> c]

\* a guard that lets a session pass whose expiry is exactly one hour away
SessionUsableGE(session, t) ==
    /\ session.present
    /\ \/ ~session.expiresAt.known
       \/ session.expiresAt.at - t >= OneHourMs

\* the guard of the fast path: the session exists and its expiry is unknown or
\* more than one hour away
SessionUsable(session, t) ==
    /\ session.present
    /\ \/ ~session.expiresAt.known
       \/ session.expiresAt.at - t > OneHourMs

\* a source that is the configured token whatever the session holds
SourceAlwaysOptions(session) == OptionsRefreshToken

\* refreshSession?.refreshToken ?? options.refreshToken
SourceRefreshToken(session) ==
    IF session.present THEN session.refreshToken ELSE OptionsRefreshToken

\* The token endpoint's answers: a failure (non-success status), or a token
\* response whose identity token may lack the account id or the exp claim and
\* which may omit refresh_token.
ExchangeResponses ==
    {[ok |-> FALSE, hasAccount |-> FALSE, hasExp |-> FALSE, exp |-> 0, rotates |-> FALSE]}
    \cup {[ok |-> TRUE, hasAccount |-> a, hasExp |-> FALSE, exp |-> 0, rotates |-> r] :
            a \in BOOLEAN, r \in BOOLEAN}
    \cup {[ok |-> TRUE, hasAccount |-> TRUE, hasExp |-> TRUE, exp |-> e, rotates |-> r] :
            e \in ExpSeconds, r \in BOOLEAN}

\* the entry of rtReceived for an exchange without an answer yet
Unanswered == [ok |-> FALSE, hasAccount |-> FALSE, hasExp |-> FALSE, exp |-> 0, rotates |-> FALSE]

\* the answers that tell file-based behaviours apart: doRefreshToken does not
\* look for an account id in the response
FileExchangeResponses ==
    {resp \in ExchangeResponses :
        \/ ~resp.ok
        \/ resp.hasAccount /\ ~resp.hasExp /\ ~resp.rotates
        \/ resp.hasExp /\ resp.rotates /\ resp.exp \in {1800, 1800 * MaxExpHalfHours}}

\* an exchange that succeeds on any success status
ExchangeSucceedsOnStatus(resp) == resp.ok

\* CodexAuth.exchangeRefreshToken succeeds: the status is a success and the
\* identity token carries an account id
ExchangeSucceeds(resp) == resp.ok /\ resp.hasAccount

\* a session that keeps the refresh token that was sent
SessionKeepingSentToken(p, sent, resp, old) ==
    [present |-> TRUE,
     accessToken |-> p,
     refreshToken |-> sent,
     accountId |-> IF resp.hasAccount THEN p ELSE 0,
     expiresAt |-> IF resp.hasExp THEN KnownExpiry(resp.exp * 1000) ELSE NullExpiry]

\* a session that keeps the account id of the session it replaces
SessionKeepingOldAccount(p, sent, resp, old) ==
    [present |-> TRUE,
     accessToken |-> p,
     refreshToken |-> IF resp.rotates THEN RotatedToken(p) ELSE sent,
     accountId |-> IF old.present THEN old.accountId ELSE p,
     expiresAt |-> IF resp.hasExp THEN KnownExpiry(resp.exp * 1000) ELSE NullExpiry]

\* the session built from the p-th exchange's result
SessionFromExchange(p, sent, resp, old) ==
    [present |-> TRUE,
     accessToken |-> p,
     refreshToken |-> IF resp.rotates THEN RotatedToken(p) ELSE sent,
     accountId |-> IF resp.hasAccount THEN p ELSE 0,
     expiresAt |-> IF resp.hasExp THEN KnownExpiry(resp.exp * 1000) ELSE NullExpiry]

\* the next unused promise id
NextPromise == Len(rtSent) + 1

\* a slot test that never finds an exchange in flight
SlotTakenNever(slot) == FALSE

\* the slot test of ensureRefreshSession: if (refreshSessionPromise)
SlotTaken(slot) == slot # 0

\* a slot that is cleared only after an exchange that succeeded
SlotKeptOnFailure(slot, state) == IF state = "rejected" THEN slot ELSE 0

\* the finally block of ensureRefreshSession: refreshSessionPromise = null
SlotAfterFinally(slot, state) == 0

\* a continuation of getHeaders or ensureRefreshSession is ready to run
RtMicrotaskPending ==
    \E c \in Callers :
        \/ rtPc[c] = "ret"
        \/ rtPc[c] \in {"own", "join"} /\ rtPromise[rtAwait[c]] \in {"fulfilled", "rejected"}

\* getHeaders() is called: ensureRefreshSession runs up to its first await.
RtCall(c) ==
    /\ rtPc[c] = "idle"
    /\ AuthMode(options) = "refreshToken"
    /\ IF SessionUsable(refreshSession, now)
       THEN \* the fast path: return
            /\ rtPc' = [rtPc EXCEPT ![c] = "ret"]
            /\ rtPath' = [rtPath EXCEPT ![c] = "fast"]
            /\ UNCHANGED <<refreshSession, refreshSessionPromise, rtPromise, rtSent, rtAwait>>
       ELSE IF SlotTaken(refreshSessionPromise)
       THEN \* await refreshSessionPromise
            /\ rtPc' = [rtPc EXCEPT ![c] = "join"]
            /\ rtAwait' = [rtAwait EXCEPT ![c] = refreshSessionPromise]
            /\ rtPath' = [rtPath EXCEPT ![c] = "join"]
            /\ UNCHANGED <<refreshSession, refreshSessionPromise, rtPromise, rtSent>>
       ELSE \* start the exchange: the async function runs up to the await
            \* of CodexAuth.exchangeRefreshToken, then this caller awaits it
            /\ Len(rtSent) < MaxExchanges
            /\ refreshSessionPromise' = NextPromise
            /\ rtPromise' = [rtPromise EXCEPT ![NextPromise] = "pending"]
            /\ rtSent' = Append(rtSent, SourceRefreshToken(refreshSession))
            /\ rtPc' = [rtPc EXCEPT ![c] = "own"]
            /\ rtAwait' = [rtAwait EXCEPT ![c] = NextPromise]
            /\ rtPath' = [rtPath EXCEPT ![c] = "start"]
            /\ UNCHANGED refreshSession
    /\ UNCHANGED <<now, rtReceived, rtReturned, options, env, lastHeaders, faVars, trVars>>

\* The token exchange of promise p completes with resp: the async function
\* stores the session and its promise is fulfilled, or it throws and its
\* promise is rejected.
RtExchangeSettle(p, resp) ==
    /\ rtPromise[p] = "pending"
    /\ ~RtMicrotaskPending
    /\ rtReceived' = [rtReceived EXCEPT ![p] = resp]
    /\ IF ExchangeSucceeds(resp)
       THEN /\ refreshSession' = SessionFromExchange(p, rtSent[p], resp, refreshSession)
            /\ rtPromise' = [rtPromise EXCEPT ![p] = "fulfilled"]
       ELSE /\ rtPromise' = [rtPromise EXCEPT ![p] = "rejected"]
            /\ UNCHANGED refreshSession
    /\ UNCHANGED <<now, refreshSessionPromise, rtSent, rtPc, rtAwait, rtPath, rtReturned>>
    /\ UNCHANGED <<options, env, lastHeaders, faVars, trVars>>

\* The starter resumes after `await refreshSessionPromise`: the finally block
\* clears the slot, then ensureRefreshSession returns or rethrows.
RtOwnResume(c) ==
    /\ rtPc[c] = "own"
    /\ rtPromise[rtAwait[c]] \in {"fulfilled", "rejected"}
    /\ refreshSessionPromise' = SlotAfterFinally(refreshSessionPromise, rtPromise[rtAwait[c]])
    /\ rtAwait' = [rtAwait EXCEPT ![c] = 0]
    /\ IF rtPromise[rtAwait[c]] = "fulfilled"
       THEN /\ rtPc' = [rtPc EXCEPT ![c] = "ret"]
            /\ UNCHANGED <<rtReturned, rtPath>>
       ELSE /\ rtPc' = [rtPc EXCEPT ![c] = "idle"]
            /\ rtPath' = [rtPath EXCEPT ![c] = "none"]
            /\ rtReturned' = ErrorResult(c)
    /\ UNCHANGED <<now, refreshSession, rtPromise, rtSent, rtReceived, options, env, lastHeaders,
                   faVars, trVars>>

\* A joiner resumes after `await refreshSessionPromise`: return, or rethrow.
RtJoinResume(c) ==
    /\ rtPc[c] = "join"
    /\ rtPromise[rtAwait[c]] \in {"fulfilled", "rejected"}
    /\ rtAwait' = [rtAwait EXCEPT ![c] = 0]
    /\ IF rtPromise[rtAwait[c]] = "fulfilled"
       THEN /\ rtPc' = [rtPc EXCEPT ![c] = "ret"]
            /\ UNCHANGED <<rtReturned, rtPath>>
       ELSE /\ rtPc' = [rtPc EXCEPT ![c] = "idle"]
            /\ rtPath' = [rtPath EXCEPT ![c] = "none"]
            /\ rtReturned' = ErrorResult(c)
    /\ UNCHANGED <<now, refreshSession, refreshSessionPromise, rtPromise, rtSent, rtReceived,
                   options, env, lastHeaders, faVars, trVars>>

\* getHeaders resumes after `await ensureRefreshSession()` and builds the
\* headers from refreshSession!
RtReturn(c) ==
    /\ rtPc[c] = "ret"
    /\ rtPc' = [rtPc EXCEPT ![c] = "idle"]
    /\ rtPath' = [rtPath EXCEPT ![c] = "none"]
    /\ rtReturned' = HeadersResult(c, refreshSession)
    /\ lastHeaders' = IF refreshSession.present
                      THEN RefreshHeaders(refreshSession, options.headers)
                      ELSE lastHeaders
    /\ UNCHANGED <<now, refreshSession, refreshSessionPromise, rtPromise, rtSent, rtReceived,
                   rtAwait>>
    /\ UNCHANGED <<options, env, faVars, trVars>>

\* a continuation of a CodexAuth method is ready to run: its
\* loadAuthJson call has returned, the promise it awaits has settled, or the
\* async call it awaits returned without suspending
FaMicrotaskPending ==
    \/ \E c \in Callers :
          \/ faPc[c] \in {"ga207", "ra262", "ra274", "ga213", "gi232"} /\ faLoad[c].st = "ready"
          \/ faPc[c] \in {"ra261", "ra269"} /\ faPromise[faAwait[c]] \in {"fulfilled", "rejected"}
          \/ faPc[c] \in {"ga212", "gh249", "gh250"}
    \/ faTask.pc = "load" /\ faLoad[0].st = "ready"

\* time passes, between two tasks of the event loop
Tick ==
    /\ now < MaxTicks * TickMs
    /\ ~RtMicrotaskPending
    /\ ~FaMicrotaskPending
    /\ now' = now + TickMs
    /\ UNCHANGED <<options, env, lastHeaders, rtVars, faVars, trVars>>

(***************************************************************************)
(* File-based mode: CodexAuth.  A thread is a caller of getHeaders, or     *)
(* thread 0, the running doRefreshToken call.  parseIdToken's memo         *)
(* (cachedTokenInfo) is keyed by the token it decodes, so the decoded      *)
(* claims are a function of the token: they are fields of the token here.  *)
(***************************************************************************)
FaThreads == 0..NCallers
ObjIds == 1..(2 * NCallers + 3)

\* an identity token with the claims parseIdToken decodes from it; gen names
\* the exchange that issued it (0: the token of the initial file)
IdToken(hasExp, exp, hasAccount, gen) ==
    [present |-> TRUE, hasExp |-> hasExp, exp |-> exp, hasAccount |-> hasAccount, gen |-> gen]
NoIdToken == [present |-> FALSE, hasExp |-> FALSE, exp |-> 0, hasAccount |-> FALSE, gen |-> 0]

\* AuthDotJson
AuthDotJson(tokens, idToken, hasAccess, hasRefresh, accountId, apiKey) ==
    [tokens |-> tokens,
     idToken |-> idToken,
     accessToken |-> [present |-> hasAccess, gen |-> 0],
     refreshToken |-> [present |-> hasRefresh, rotation |-> 0],
     accountId |-> accountId,
     apiKey |-> apiKey,
     lastRefresh |-> [set |-> FALSE, at |-> 0]]

EmptyAuth == AuthDotJson(FALSE, NoIdToken, FALSE, FALSE, FALSE, FALSE)
NoFile == [exists |-> FALSE, rec |-> EmptyAuth]
FileOf(rec) == [exists |-> TRUE, rec |-> rec]

\* The auth files a behaviour may start from: an expired identity token with
\* a refresh token; one that expires late; one without an exp claim and
\* without tokens.account_id; an expired one without a refresh token, beside
\* an api_key; an api_key alone; no file.
InitialFiles ==
    {FileOf(AuthDotJson(TRUE, IdToken(TRUE, 1800, TRUE, 0), TRUE, TRUE, TRUE, FALSE)),
     FileOf(AuthDotJson(TRUE, IdToken(TRUE, 1800 * MaxExpHalfHours, TRUE, 0), TRUE, TRUE, TRUE, FALSE)),
     FileOf(AuthDotJson(TRUE, IdToken(FALSE, 0, TRUE, 0), TRUE, TRUE, FALSE, FALSE)),
     FileOf(AuthDotJson(TRUE, IdToken(TRUE, 1800, FALSE, 0), TRUE, FALSE, FALSE, TRUE)),
     FileOf(AuthDotJson(FALSE, NoIdToken, FALSE, FALSE, FALSE, TRUE)),
     NoFile}

NoLoad == [st |-> "none", obj |-> 0, buf |-> NoFile]
NoLocal ==
    [auth |-> 0, token |-> [kind |-> "none", gen |-> 0],
     account |-> [kind |-> "none", gen |-> 0], path |-> "none"]
NoTask ==
    [pc |-> "none", promise |-> 0, auth |-> 0, tokenResponse |-> Unanswered,
     data |-> EmptyAuth, io |-> "none"]

\* an expiry test that counts a token one hour from its expiry as expired
IsTokenExpiredLE(idToken, t) ==
    IF ~idToken.hasExp THEN TRUE ELSE idToken.exp * 1000 - t <= OneHourMs

\* CodexAuth.isTokenExpired
IsTokenExpired(idToken, t) ==
    IF ~idToken.hasExp THEN TRUE ELSE idToken.exp * 1000 - t < OneHourMs

\* getAccessToken's test for a refresh: auth.tokens?.id_token, expired, and
\* auth.tokens.refresh_token
NeedsFileRefresh(auth, t) ==
    /\ auth.tokens
    /\ auth.idToken.present
    /\ IsTokenExpired(auth.idToken, t)
    /\ auth.refreshToken.present

\* loadAuthJson up to its first await: the cached object, or a file read
LoadAuthJsonStart(cache) ==
    IF cache # 0
    THEN [st |-> "ready", obj |-> cache, buf |-> NoFile]
    ELSE [st |-> "reading", obj |-> 0, buf |-> NoFile]

\* the objects some thread or the cache still refers to
Referenced ==
    {cachedAuth, faTask.auth}
    \cup {faLoad[t].obj : t \in FaThreads}
    \cup {faLocal[c].auth : c \in Callers}

\* a new object: JSON.parse(content)
FreshObj == CHOOSE o \in ObjIds : o \notin Referenced /\ \A o2 \in ObjIds \ Referenced : o <= o2

\* the tail of getAccessToken: auth.tokens?.access_token, else auth.api_key
AccessTokenOrKey(auth) ==
    IF auth.tokens /\ auth.accessToken.present
    THEN [kind |-> "access", gen |-> auth.accessToken.gen]
    ELSE IF auth.apiKey THEN [kind |-> "apiKey", gen |-> 0]
    ELSE [kind |-> "none", gen |-> 0]

\* getAccountId: auth.tokens?.account_id, else the identity token's claim
AccountIdOf(auth) ==
    IF auth.tokens /\ auth.accountId THEN [kind |-> "tokens", gen |-> 0]
    ELSE IF auth.tokens /\ auth.idToken.present /\ auth.idToken.hasAccount
    THEN [kind |-> "idToken", gen |-> auth.idToken.gen]
    ELSE [kind |-> "none", gen |-> 0]

\* an update that rebuilds tokens without account_id
RefreshedAuthWithoutAccountId(auth, resp, k, t) ==
    [auth EXCEPT
        !.idToken = IdToken(resp.hasExp, resp.exp, resp.hasAccount, k),
        !.accessToken = [present |-> TRUE, gen |-> k],
        !.refreshToken = IF resp.rotates
                         THEN [present |-> TRUE, rotation |-> k]
                         ELSE auth.refreshToken,
        !.accountId = FALSE,
        !.lastRefresh = [set |-> TRUE, at |-> t]]

\* doRefreshToken's update of the record it loaded, from the k-th exchange's
\* response: new id_token and access_token, the new refresh_token or the old
\* one, account_id kept, last_refresh stamped
RefreshedAuth(auth, resp, k, t) ==
    [auth EXCEPT
        !.idToken = IdToken(resp.hasExp, resp.exp, resp.hasAccount, k),
        !.accessToken = [present |-> TRUE, gen |-> k],
        !.refreshToken = IF resp.rotates
                         THEN [present |-> TRUE, rotation |-> k]
                         ELSE auth.refreshToken,
        !.lastRefresh = [set |-> TRUE, at |-> t]]

\* the next unused promise id of CodexAuth.refreshPromise
NextFaPromise == 1 + Cardinality({p \in PromiseIds : faPromise[p] # "unborn"})

\* the slot test of refreshAccessToken: if (this.refreshPromise)
FaSlotTaken(slot) == slot # 0

\* the finally block of refreshAccessToken: this.refreshPromise = null
FaSlotAfterFinally(slot, state) == 0

\* The heap after a step holds heap for the objects still referred to; an
\* object nothing refers to any more is garbage.
StoreHeap(heap) ==
    faHeap' = [o \in ObjIds |-> IF o \in Referenced' THEN heap[o] ELSE EmptyAuth]

\* the error reaches the caller of getHeaders
FaThrow(c) ==
    /\ faPc' = [faPc EXCEPT ![c] = "idle"]
    /\ faLoad' = [faLoad EXCEPT ![c] = NoLoad]
    /\ faLocal' = [faLocal EXCEPT ![c] = NoLocal]
    /\ faAwait' = [faAwait EXCEPT ![c] = 0]

\* getHeaders() is called: getAccessToken runs up to `await loadAuthJson()`
FaCall(c) ==
    /\ faPc[c] = "idle"
    /\ AuthMode(options) = "file"
    /\ faPc' = [faPc EXCEPT ![c] = "ga207"]
    /\ faLoad' = [faLoad EXCEPT ![c] = LoadAuthJsonStart(cachedAuth)]
    /\ UNCHANGED <<authFile, cachedAuth, refreshPromise, faPromise, faSent,
                   faAwait, faLocal, faTask>>
    /\ StoreHeap(faHeap)
    /\ UNCHANGED <<options, env, lastHeaders, now, rtVars, trVars>>

\* fs.readFile of thread t reads the file
FaReadIO(t) ==
    /\ faLoad[t].st = "reading"
    /\ faLoad' = [faLoad EXCEPT ![t] = [st |-> "read", obj |-> 0, buf |-> authFile]]
    /\ UNCHANGED <<authFile, cachedAuth, refreshPromise, faPromise, faSent,
                   faPc, faAwait, faLocal, faTask>>
    /\ StoreHeap(faHeap)
    /\ UNCHANGED <<options, env, lastHeaders, now, rtVars, trVars>>

\* fs.readFile of thread t completes and loadAuthJson resumes after its
\* await: it caches the parsed content and returns it, or throws when there
\* is no file.  The throw reaches the caller of getHeaders, or, inside
\* doRefreshToken, rejects the refresh promise.
FaReadResume(t) ==
    /\ faLoad[t].st = "read"
    /\ ~FaMicrotaskPending
    /\ IF faLoad[t].buf.exists
       THEN /\ cachedAuth' = FreshObj
            /\ faLoad' = [faLoad EXCEPT ![t] = [st |-> "ready", obj |-> FreshObj, buf |-> NoFile]]
            /\ UNCHANGED <<faPc, faLocal, faAwait, faPromise, faTask>>
       ELSE IF t \in Callers
       THEN /\ FaThrow(t)
            /\ UNCHANGED <<cachedAuth, faPromise, faTask>>
       ELSE /\ faPromise' = [faPromise EXCEPT ![faTask.promise] = "rejected"]
            /\ faTask' = NoTask
            /\ faLoad' = [faLoad EXCEPT ![t] = NoLoad]
            /\ UNCHANGED <<cachedAuth, faPc, faLocal, faAwait>>
    /\ UNCHANGED <<authFile, refreshPromise, faSent>>
    /\ StoreHeap(IF faLoad[t].buf.exists
                 THEN [faHeap EXCEPT ![FreshObj] = faLoad[t].buf.rec]
                 ELSE faHeap)
    /\ UNCHANGED <<options, env, lastHeaders, now, rtVars, trVars>>

\* getAccessToken resumes after `await this.loadAuthJson()` (line 207): it
\* calls refreshAccessToken, which joins the refresh in flight or starts
\* doRefreshToken (run up to its own `await this.loadAuthJson()`), or it
\* returns the access token or the api key
FaGa207(c) ==
    /\ faPc[c] = "ga207"
    /\ faLoad[c].st = "ready"
    /\ LET auth == faHeap[faLoad[c].obj]
           tok == AccessTokenOrKey(auth)
       IN IF NeedsFileRefresh(auth, now)
          THEN /\ faLocal' = [faLocal EXCEPT ![c] = [NoLocal EXCEPT !.auth = faLoad[c].obj,
                                                                    !.path = "refresh"]]
               /\ IF FaSlotTaken(refreshPromise)
                  THEN /\ faPc' = [faPc EXCEPT ![c] = "ra261"]
                       /\ faAwait' = [faAwait EXCEPT ![c] = refreshPromise]
                       /\ faLoad' = [faLoad EXCEPT ![c] = NoLoad]
                       /\ UNCHANGED <<refreshPromise, faPromise, faTask>>
                  ELSE /\ NextFaPromise <= MaxExchanges
                       /\ refreshPromise' = NextFaPromise
                       /\ faPromise' = [faPromise EXCEPT ![NextFaPromise] = "pending"]
                       /\ faTask' = [NoTask EXCEPT !.pc = "load", !.promise = NextFaPromise]
                       /\ faLoad' = [faLoad EXCEPT ![c] = NoLoad,
                                                   ![0] = LoadAuthJsonStart(cachedAuth)]
                       /\ faPc' = [faPc EXCEPT ![c] = "ra269"]
                       /\ faAwait' = [faAwait EXCEPT ![c] = NextFaPromise]
          ELSE /\ UNCHANGED <<refreshPromise, faPromise, faTask>>
               /\ IF tok.kind = "none"
                  THEN FaThrow(c)
                  ELSE /\ faPc' = [faPc EXCEPT ![c] = "gh249"]
                       /\ faLocal' = [faLocal EXCEPT ![c] =
                                        [NoLocal EXCEPT
                                           !.token = tok,
                                           !.path = IF /\ auth.tokens /\ auth.idToken.present
                                                       /\ ~IsTokenExpired(auth.idToken, now)
                                                    THEN "fresh" ELSE "plain"]]
                       /\ faLoad' = [faLoad EXCEPT ![c] = NoLoad]
                       /\ UNCHANGED faAwait
    /\ UNCHANGED <<authFile, cachedAuth, faSent>>
    /\ StoreHeap(faHeap)
    /\ UNCHANGED <<options, env, lastHeaders, now, rtVars, trVars>>

\* a joiner resumes after `await this.refreshPromise` (line 261)
FaRa261(c) ==
    /\ faPc[c] = "ra261"
    /\ faPromise[faAwait[c]] \in {"fulfilled", "rejected"}
    /\ IF faPromise[faAwait[c]] = "fulfilled"
       THEN /\ faPc' = [faPc EXCEPT ![c] = "ra262"]
            /\ faLoad' = [faLoad EXCEPT ![c] = LoadAuthJsonStart(cachedAuth)]
            /\ faAwait' = [faAwait EXCEPT ![c] = 0]
            /\ UNCHANGED <<faLocal>>
       ELSE FaThrow(c)
    /\ UNCHANGED <<authFile, cachedAuth, refreshPromise, faPromise, faSent,
                   faTask>>
    /\ StoreHeap(faHeap)
    /\ UNCHANGED <<options, env, lastHeaders, now, rtVars, trVars>>

\* the starter resumes after `await this.refreshPromise` (line 269): the
\* finally block clears the slot
FaRa269(c) ==
    /\ faPc[c] = "ra269"
    /\ faPromise[faAwait[c]] \in {"fulfilled", "rejected"}
    /\ refreshPromise' = FaSlotAfterFinally(refreshPromise, faPromise[faAwait[c]])
    /\ IF faPromise[faAwait[c]] = "fulfilled"
       THEN /\ faPc' = [faPc EXCEPT ![c] = "ra274"]
            /\ faLoad' = [faLoad EXCEPT ![c] = LoadAuthJsonStart(cachedAuth)]
            /\ faAwait' = [faAwait EXCEPT ![c] = 0]
            /\ UNCHANGED <<faLocal>>
       ELSE FaThrow(c)
    /\ UNCHANGED <<authFile, cachedAuth, faPromise, faSent, faTask>>
    /\ StoreHeap(faHeap)
    /\ UNCHANGED <<options, env, lastHeaders, now, rtVars, trVars>>

\* refreshAccessToken resumes after its `await this.loadAuthJson()` (lines
\* 262 and 274) and returns the access token, or throws
FaRaLoaded(c) ==
    /\ faPc[c] \in {"ra262", "ra274"}
    /\ faLoad[c].st = "ready"
    /\ LET auth == faHeap[faLoad[c].obj]
       IN IF auth.tokens /\ auth.accessToken.present
          THEN /\ faPc' = [faPc EXCEPT ![c] = "ga212"]
               /\ faLoad' = [faLoad EXCEPT ![c] = NoLoad]
               /\ UNCHANGED <<faLocal, faAwait>>
          ELSE FaThrow(c)
    /\ UNCHANGED <<authFile, cachedAuth, refreshPromise, faPromise, faSent,
                   faTask>>
    /\ StoreHeap(faHeap)
    /\ UNCHANGED <<options, env, lastHeaders, now, rtVars, trVars>>

\* getAccessToken resumes after `await this.refreshAccessToken()` (line 212)
\* and calls loadAuthJson again
FaGa212(c) ==
    /\ faPc[c] = "ga212"
    /\ faPc' = [faPc EXCEPT ![c] = "ga213"]
    /\ faLoad' = [faLoad EXCEPT ![c] = LoadAuthJsonStart(cachedAuth)]
    /\ UNCHANGED <<authFile, cachedAuth, refreshPromise, faPromise, faSent,
                   faAwait, faLocal, faTask>>
    /\ StoreHeap(faHeap)
    /\ UNCHANGED <<options, env, lastHeaders, now, rtVars, trVars>>

\* getAccessToken resumes after `await this.loadAuthJson()` (line 213): the
\* refreshed access token, else what the record loaded first offers
FaGa213(c) ==
    /\ faPc[c] = "ga213"
    /\ faLoad[c].st = "ready"
    /\ LET refreshed == faHeap[faLoad[c].obj]
           auth == faHeap[faLocal[c].auth]
           tok == IF refreshed.tokens /\ refreshed.accessToken.present
                  THEN [kind |-> "access", gen |-> refreshed.accessToken.gen]
                  ELSE AccessTokenOrKey(auth)
       IN IF tok.kind = "none"
          THEN FaThrow(c)
          ELSE /\ faPc' = [faPc EXCEPT ![c] = "gh249"]
               /\ faLocal' = [faLocal EXCEPT ![c] = [NoLocal EXCEPT !.token = tok,
                                                                    !.path = "refresh"]]
               /\ faLoad' = [faLoad EXCEPT ![c] = NoLoad]
               /\ UNCHANGED faAwait
    /\ UNCHANGED <<authFile, cachedAuth, refreshPromise, faPromise, faSent,
                   faTask>>
    /\ StoreHeap(faHeap)
    /\ UNCHANGED <<options, env, lastHeaders, now, rtVars, trVars>>

\* getHeaders resumes after `await this.getAccessToken()` (line 249) and
\* calls getAccountId, which runs up to `await this.loadAuthJson()`
FaGh249(c) ==
    /\ faPc[c] = "gh249"
    /\ faPc' = [faPc EXCEPT ![c] = "gi232"]
    /\ faLoad' = [faLoad EXCEPT ![c] = LoadAuthJsonStart(cachedAuth)]
    /\ UNCHANGED <<authFile, cachedAuth, refreshPromise, faPromise, faSent,
                   faAwait, faLocal, faTask>>
    /\ StoreHeap(faHeap)
    /\ UNCHANGED <<options, env, lastHeaders, now, rtVars, trVars>>

\* getAccountId resumes after `await this.loadAuthJson()` (line 232)
FaGi232(c) ==
    /\ faPc[c] = "gi232"
    /\ faLoad[c].st = "ready"
    /\ LET account == AccountIdOf(faHeap[faLoad[c].obj])
       IN IF account.kind = "none"
          THEN FaThrow(c)
          ELSE /\ faPc' = [faPc EXCEPT ![c] = "gh250"]
               /\ faLocal' = [faLocal EXCEPT ![c].account = account]
               /\ faLoad' = [faLoad EXCEPT ![c] = NoLoad]
               /\ UNCHANGED faAwait
    /\ UNCHANGED <<authFile, cachedAuth, refreshPromise, faPromise, faSent,
                   faTask>>
    /\ StoreHeap(faHeap)
    /\ UNCHANGED <<options, env, lastHeaders, now, rtVars, trVars>>

\* CodexAuth.getHeaders resumes after `await this.getAccountId()` (line
\* 250) and returns its header set; the provider's getHeaders, which awaits
\* it, adds its own headers and options.headers and returns
FaGh250(c) ==
    /\ faPc[c] = "gh250"
    /\ faPc' = [faPc EXCEPT ![c] = "idle"]
    /\ faLocal' = [faLocal EXCEPT ![c] = NoLocal]
    /\ lastHeaders' = FileHeaders(CodexAuthHeaders(faLocal[c].token, faLocal[c].account),
                                  options.headers)
    /\ UNCHANGED <<authFile, cachedAuth, refreshPromise, faPromise, faSent,
                   faAwait, faLoad, faTask>>
    /\ StoreHeap(faHeap)
    /\ UNCHANGED <<options, env, now, rtVars, trVars>>

\* doRefreshToken resumes after `await this.loadAuthJson()` (line 280):
\* without a refresh token it throws, else it calls the token endpoint
FaTaskLoaded ==
    /\ faTask.pc = "load"
    /\ faLoad[0].st = "ready"
    /\ LET auth == faHeap[faLoad[0].obj]
       IN IF auth.tokens /\ auth.refreshToken.present
          THEN /\ faSent' = Append(faSent, auth.refreshToken)
               /\ faTask' = [faTask EXCEPT !.pc = "exchange", !.auth = faLoad[0].obj]
               /\ UNCHANGED faPromise
          ELSE /\ faPromise' = [faPromise EXCEPT ![faTask.promise] = "rejected"]
               /\ faTask' = NoTask
               /\ UNCHANGED faSent
    /\ faLoad' = [faLoad EXCEPT ![0] = NoLoad]
    /\ UNCHANGED <<authFile, cachedAuth, refreshPromise, faPc, faAwait, faLocal>>
    /\ StoreHeap(faHeap)
    /\ UNCHANGED <<options, env, lastHeaders, now, rtVars, trVars>>

\* exchangeRefreshTokenRaw completes with resp: doRefreshToken throws, or
\* updates the record it loaded, in place, and calls fs.writeFile with its
\* serialization
FaExchangeSettle(resp) ==
    /\ faTask.pc = "exchange"
    /\ ~FaMicrotaskPending
    /\ IF resp.ok
       THEN /\ faTask' = [faTask EXCEPT
                            !.pc = "write", !.io = "pending", !.tokenResponse = resp,
                            !.data = RefreshedAuth(faHeap[faTask.auth], resp, Len(faSent), now)]
            /\ UNCHANGED faPromise
       ELSE /\ faPromise' = [faPromise EXCEPT ![faTask.promise] = "rejected"]
            /\ faTask' = NoTask
    /\ UNCHANGED <<authFile, cachedAuth, refreshPromise, faSent, faPc, faAwait, faLoad,
                   faLocal>>
    /\ StoreHeap(IF resp.ok
                 THEN [faHeap EXCEPT ![faTask.auth] =
                         RefreshedAuth(faHeap[faTask.auth], resp, Len(faSent), now)]
                 ELSE faHeap)
    /\ UNCHANGED <<options, env, lastHeaders, now, rtVars, trVars>>

\* fs.writeFile replaces the file's content, or fails
FaWriteIO(ok) ==
    /\ faTask.pc = "write"
    /\ faTask.io = "pending"
    /\ authFile' = IF ok THEN FileOf(faTask.data) ELSE authFile
    /\ faTask' = [faTask EXCEPT !.io = IF ok THEN "ok" ELSE "failed"]
    /\ UNCHANGED <<cachedAuth, refreshPromise, faPromise, faSent, faPc, faAwait,
                   faLoad, faLocal>>
    /\ StoreHeap(faHeap)
    /\ UNCHANGED <<options, env, lastHeaders, now, rtVars, trVars>>

\* doRefreshToken resumes after `await fs.writeFile`: clearCache() and
\* return, or throw
FaWriteResume ==
    /\ faTask.pc = "write"
    /\ faTask.io \in {"ok", "failed"}
    /\ ~FaMicrotaskPending
    /\ IF faTask.io = "ok"
       THEN /\ cachedAuth' = 0
            /\ faPromise' = [faPromise EXCEPT ![faTask.promise] = "fulfilled"]
       ELSE /\ faPromise' = [faPromise EXCEPT ![faTask.promise] = "rejected"]
            /\ UNCHANGED cachedAuth
    /\ faTask' = NoTask
    /\ UNCHANGED <<authFile, refreshPromise, faSent, faPc, faAwait, faLoad,
                   faLocal>>
    /\ StoreHeap(faHeap)
    /\ UNCHANGED <<options, env, lastHeaders, now, rtVars, trVars>>

(***************************************************************************)
(* The response protocol translator: CodexLanguageModel.doStream and       *)
(* doGenerate.  A JavaScript value read from a parsed record is a tagged    *)
(* string: undefined, a string, or an object (named by its JSON text).     *)
(***************************************************************************)
Undefined == [t |-> "undefined", v |-> ""]
Str(s) == [t |-> "string", v |-> s]
Obj(json) == [t |-> "object", v |-> json]

\* the truth value of x in `if (x)` and `x && y`
Truthy(x) == x.t = "object" \/ (x.t = "string" /\ x.v # "")
\* a ?? b
Coalesce(a, b) == IF a.t = "undefined" THEN b ELSE a
\* typeof args === 'string' ? args : JSON.stringify(args)
ArgsString(args) ==
    IF args.t = "string" THEN args
    ELSE IF args.t = "object" THEN Str(args.v)
    ELSE Undefined

\* an optional number
NoNum == [has |-> FALSE, n |-> 0]
Num(n) == [has |-> TRUE, n |-> n]

\* response.usage: absent, or the token counts it carries
NoUsageObject ==
    [present |-> FALSE, input_tokens |-> NoNum, output_tokens |-> NoNum,
     cached_tokens |-> NoNum, reasoning_tokens |-> NoNum]
UsageObject(input, output, cached, reasoning) ==
    [present |-> TRUE, input_tokens |-> input, output_tokens |-> output,
     cached_tokens |-> cached, reasoning_tokens |-> reasoning]

\* parsed['response']: absent, or its status, usage and id
NoResponse == [present |-> FALSE, status |-> Undefined, usage |-> NoUsageObject, id |-> Undefined]
Response(status, usage, id) == [present |-> TRUE, status |-> status, usage |-> usage, id |-> id]

\* parsed['item']: absent, or its type, name and id
NoItem == [present |-> FALSE, type |-> Undefined, name |-> Undefined, id |-> Undefined]
Item(type, name, id) == [present |-> TRUE, type |-> type, name |-> name, id |-> id]

\* One record of the event stream.  data is "empty" (no data), "done" (the
\* [DONE] sentinel), "malformed" (JSON.parse throws) or "json"; the other
\* fields are those of the parsed object.
Record(data, type) ==
    [data |-> data, type |-> type, delta |-> Undefined, item |-> NoItem,
     item_id |-> Undefined, call_id |-> Undefined, name |-> Undefined,
     arguments |-> Undefined, response |-> NoResponse]

\* the records a behaviour is fed
Records ==
    {Record("empty", ""), Record("done", ""), Record("malformed", ""),
     Record("json", "response.created"),
     [Record("json", "response.output_text.delta") EXCEPT !.delta = Str("a")],
     Record("json", "response.output_text.delta"),
     Record("json", "response.output_text.done"),
     [Record("json", "response.reasoning_summary_text.delta") EXCEPT !.delta = Str("r")],
     Record("json", "response.reasoning_summary_text.done"),
     [Record("json", "response.output_item.added") EXCEPT
        !.item = Item(Str("function_call"), Str("f"), Str("fc_1"))],
     [Record("json", "response.output_item.added") EXCEPT
        !.item = Item(Str("function_call"), Undefined, Str("fc_1"))],
     [Record("json", "response.function_call_arguments.delta") EXCEPT
        !.item_id = Str("fc_1"), !.delta = Str("x")],
     [Record("json", "response.function_call_arguments.done") EXCEPT
        !.item_id = Str("fc_1"), !.call_id = Str("call_1"), !.arguments = Str("{}")],
     [Record("json", "response.function_call_arguments.done") EXCEPT
        !.item_id = Str("fc_1"), !.name = Str("g"), !.arguments = Obj("{}")],
     [Record("json", "response.function_call_arguments.done") EXCEPT
        !.name = Str("g")],
     Record("json", "response.completed"),
     [Record("json", "response.completed") EXCEPT
        !.response = Response(Str("incomplete"),
                              UsageObject(Num(5), Num(3), Num(2), NoNum), Str("resp_1"))]}

\* ---- convertToCodexInput: the prompt and the input items ----

\* A part of a message of the prompt; the fields a part type does not have
\* are undefined.  data is the kind of a file's data ("url", "string" for
\* base64 text, "bytes" for a Uint8Array) and its content.
PromptPart(type) ==
    [type |-> type, text |-> "", mediaType |-> "", filename |-> Undefined,
     data |-> [kind |-> "none", content |-> ""],
     toolCallId |-> "", toolName |-> "", input |-> Undefined,
     output |-> [type |-> "none", value |-> Undefined, texts |-> <<>>]]

TextPart(text) == [PromptPart("text") EXCEPT !.text = text]
ReasoningPart(text) == [PromptPart("reasoning") EXCEPT !.text = text]
FilePart(mediaType, filename, kind, content) ==
    [PromptPart("file") EXCEPT !.mediaType = mediaType, !.filename = filename,
                               !.data = [kind |-> kind, content |-> content]]
ToolCallPart(id, name, input) ==
    [PromptPart("tool-call") EXCEPT !.toolCallId = id, !.toolName = name, !.input = input]
\* a tool result: value is output.value (output.reason for execution-denied),
\* texts the text items of a content output
ToolResultPart(id, type, value, texts) ==
    [PromptPart("tool-result") EXCEPT
        !.toolCallId = id, !.output = [type |-> type, value |-> value, texts |-> texts]]

\* a message of the prompt: a system message has a text, the others parts
SystemMessage(text) == [role |-> "system", text |-> text, content |-> <<>>]
Message(role, content) == [role |-> role, text |-> "", content |-> content]

\* the messages a prompt is drawn from
Messages ==
    {SystemMessage("Be brief."), SystemMessage("Use tools."), SystemMessage(""),
     Message("user", <<TextPart("hi")>>),
     Message("user", <<FilePart("image/png", Undefined, "url", "https://x/i.png"),
                       FilePart("image/png", Undefined, "bytes", "hi"),
                       FilePart("application/pdf", Str("a.pdf"), "string", "JVBE")>>),
     Message("user", <<>>),
     Message("assistant", <<TextPart("ok"), ReasoningPart("think"),
                            ToolCallPart("call_1", "f", Obj("{a:1}"))>>),
     Message("assistant", <<ToolCallPart("call_2", "g", Str("{}")), TextPart("a"),
                            ToolCallPart("call_3", "f", Obj("{b:2}")),
                            ReasoningPart("r"), TextPart("b")>>),
     Message("assistant", <<FilePart("image/png", Undefined, "string", "iVBO"),
                            ToolResultPart("call_1", "text", Str("done"), <<>>)>>),
     Message("tool", <<ToolResultPart("call_1", "json", Obj("{r:1}"), <<>>),
                       PromptPart("tool-approval-response"),
                       ToolResultPart("call_2", "execution-denied", Undefined, <<>>),
                       ToolResultPart("call_3", "content", Undefined, <<"p", "q">>)>>),
     Message("tool", <<PromptPart("tool-approval-response")>>)}

\* mediaType.startsWith('image/')
IsImage(mediaType) == mediaType \in {"image/png", "image/jpeg"}

\* Buffer.from(data).toString('base64'), of the byte contents of the prompts
Base64(bytes) == IF bytes = "hi" THEN "aGk=" ELSE "AA=="

\* array.join(separator)
Join(texts, separator) ==
    LET joined[i \in 0..Len(texts)] ==
            IF i = 0 THEN ""
            ELSE IF i = 1 THEN texts[1]
            ELSE joined[i - 1] \o separator \o texts[i]
    IN joined[Len(texts)]

\* the concatenation of a sequence of sequences
Flatten(seqs) ==
    LET flat[i \in 0..Len(seqs)] == IF i = 0 THEN <<>> ELSE flat[i - 1] \o seqs[i]
    IN flat[Len(seqs)]

\* an input item: a message with a role and content, a function_call or a
\* function_call_output
MessageItem(role, content) ==
    [type |-> "message", role |-> role, content |-> content,
     id |-> "", call_id |-> "", name |-> "", arguments |-> Undefined, output |-> Undefined]
FunctionCallItem(id, name, arguments) ==
    [MessageItem("", <<>>) EXCEPT !.type = "function_call", !.id = id, !.call_id = id,
                                  !.name = name, !.arguments = arguments]
FunctionCallOutputItem(id, output) ==
    [MessageItem("", <<>>) EXCEPT !.type = "function_call_output", !.call_id = id,
                                  !.output = output]

\* the content a part of a user message is converted to
UserContent(part) ==
    IF part.type = "text" THEN <<[type |-> "input_text", text |-> part.text]>>
    ELSE IF part.type = "file"
    THEN IF IsImage(part.mediaType)
         THEN <<[type |-> "input_image",
                 text |-> IF part.data.kind = "url" THEN part.data.content
                          ELSE IF part.data.kind = "string"
                          THEN "data:" \o part.mediaType \o ";base64," \o part.data.content
                          ELSE "data:" \o part.mediaType \o ";base64,"
                               \o Base64(part.data.content)]>>
         ELSE <<[type |-> "input_text",
                 text |-> "[File: " \o Coalesce(part.filename, Str("unnamed")).v
                          \o " (" \o part.mediaType \o ")]"]>>
    ELSE <<>>

\* the text content a part of an assistant message is converted to
AssistantText(part) ==
    IF part.type = "text" THEN <<[type |-> "output_text", text |-> part.text]>>
    ELSE IF part.type = "reasoning"
    THEN <<[type |-> "output_text", text |-> "<reasoning>\n" \o part.text \o "\n</reasoning>"]>>
    ELSE <<>>

\* the function call a part of an assistant message is converted to
AssistantCall(part) ==
    IF part.type = "tool-call"
    THEN <<FunctionCallItem(part.toolCallId, part.toolName, ArgsString(part.input))>>
    ELSE <<>>

\* the output text of a tool result
OutputText(output) ==
    CASE output.type \in {"text", "error-text"} -> output.value
      [] output.type \in {"json", "error-json"} -> Str(output.value.v)
      [] output.type = "execution-denied" ->
            Coalesce(output.value, Str("Tool execution denied"))
      [] output.type = "content" -> Str(Join(output.texts, "\n"))
      [] OTHER -> Str("")

\* the item a part of a tool message is converted to
ToolOutput(part) ==
    IF part.type = "tool-result"
    THEN <<FunctionCallOutputItem(part.toolCallId, OutputText(part.output))>>
    ELSE <<>>

\* the items of a message, with the function calls of an assistant message
\* put before its text
MessageItemsCallsFirst(message) ==
    CASE message.role = "system" -> <<>>
      [] message.role = "user" ->
            <<MessageItem("user", Flatten([i \in 1..Len(message.content) |->
                                             UserContent(message.content[i])]))>>
      [] message.role = "assistant" ->
            LET textParts == Flatten([i \in 1..Len(message.content) |->
                                        AssistantText(message.content[i])])
                functionCalls == Flatten([i \in 1..Len(message.content) |->
                                            AssistantCall(message.content[i])])
            IN functionCalls
               \o (IF Len(textParts) > 0 THEN <<MessageItem("assistant", textParts)>> ELSE <<>>)
      [] message.role = "tool" ->
            Flatten([i \in 1..Len(message.content) |-> ToolOutput(message.content[i])])

\* the items one message of the prompt is converted to
MessageItems(message) ==
    CASE message.role = "system" -> <<>>
      [] message.role = "user" ->
            <<MessageItem("user", Flatten([i \in 1..Len(message.content) |->
                                             UserContent(message.content[i])]))>>
      [] message.role = "assistant" ->
            LET textParts == Flatten([i \in 1..Len(message.content) |->
                                        AssistantText(message.content[i])])
                functionCalls == Flatten([i \in 1..Len(message.content) |->
                                            AssistantCall(message.content[i])])
            IN (IF Len(textParts) > 0 THEN <<MessageItem("assistant", textParts)>> ELSE <<>>)
               \o functionCalls
      [] message.role = "tool" ->
            Flatten([i \in 1..Len(message.content) |-> ToolOutput(message.content[i])])

\* instructions made of the first system message only
InstructionsOfFirst(systemParts) ==
    IF Len(systemParts) > 0 THEN systemParts[1] ELSE "You are a helpful assistant."

\* the instructions string made of the collected system messages
Instructions(systemParts) ==
    IF Len(systemParts) > 0 THEN Join(systemParts, "\n\n")
    ELSE "You are a helpful assistant."

\* convertToCodexInput(prompt)
ConvertToCodexInput(prompt_) ==
    LET systemMessages == SelectSeq(prompt_, LAMBDA m : m.role = "system")
        systemParts == [i \in 1..Len(systemMessages) |-> systemMessages[i].text]
    IN [called |-> TRUE,
        instructions |-> Instructions(systemParts),
        input |-> Flatten([i \in 1..Len(prompt_) |-> MessageItems(prompt_[i])])]

\* convertToCodexInput has not been called
NotConverted == [called |-> FALSE, instructions |-> "", input |-> <<>>]

\* buildRequestBody calls convertToCodexInput(options.prompt)
Convert ==
    /\ ~converted.called
    /\ converted' = ConvertToCodexInput(prompt)
    /\ UNCHANGED <<includeRawChunks, transport, sse, stream, buffered, requests, prompt>>
    /\ UNCHANGED <<options, env, lastHeaders, now, rtVars, faVars>>

\* ---- the call options, and buildRequestBody ----

\* LanguageModelV3CallOptions: topK (null or a number), responseFormat
\* (undefined, or its type) and includeRawChunks
CallOptions(topK, responseFormat, raw) ==
    [topK |-> topK, responseFormat |-> responseFormat, includeRawChunks |-> raw]

\* a call that asks for nothing the upstream lacks
DefaultCallOptions == CallOptions(NoNum, "undefined", FALSE)

\* the call options a behaviour draws from
CallOptionSets ==
    {CallOptions(k, f, FALSE) : k \in {NoNum, Num(40)}, f \in {"undefined", "text", "json"}}

\* a SharedV3Warning of type 'unsupported'
Unsupported(feature) == [type |-> "unsupported", feature |-> feature]

\* a buildRequestBody that warns of nothing
BuildRequestBodySilent(callOptions) == [warnings |-> <<>>, stream |-> FALSE]

\* buildRequestBody(options): the warnings, and the stream flag of the body
BuildRequestBody(callOptions) ==
    [warnings |-> (IF callOptions.topK.has THEN <<Unsupported("topK")>> ELSE <<>>)
                  \o (IF callOptions.responseFormat = "json"
                      THEN <<Unsupported("responseFormat")>> ELSE <<>>),
     stream |-> FALSE]

\* ---- the request: fetch, and the test of response.ok ----

\* the body of a response that is not read as an error
NoErrorBody == [raw |-> "", parsed |-> "invalid", error |-> Undefined, message |-> Undefined]

\* The bodies of an error response: raw is the text; parsed tells whether
\* JSON.parse throws ("invalid"), returns null or returns an object; error
\* and message are parsed.error and parsed.error.message.
ErrorBodies ==
    {[raw |-> "Bad Gateway", parsed |-> "invalid", error |-> Undefined, message |-> Undefined],
     [raw |-> "null", parsed |-> "null", error |-> Undefined, message |-> Undefined],
     [raw |-> "{detail:x}", parsed |-> "object", error |-> Undefined, message |-> Undefined],
     [raw |-> "{error:bad}", parsed |-> "object", error |-> Str("bad"), message |-> Undefined],
     [raw |-> "{error:{}}", parsed |-> "object", error |-> Obj("{}"), message |-> Undefined],
     [raw |-> "{error:{message:quota}}", parsed |-> "object",
      error |-> Obj("{message:quota}"), message |-> Str("quota")]}

\* what fetch resolves with
TransportResponses ==
    {[status |-> 200, body |-> NoErrorBody]}
    \cup {[status |-> st, body |-> b] : st \in {401, 500}, b \in ErrorBodies}

\* response.ok
ResponseOk(resp) == resp.status \in 200..299

\* an extraction that never finds a message
TryParseErrorMessageNever(body) == Undefined

\* tryParseErrorMessage(body): JSON.parse throws, or reading parsed['error']
\* of null throws, and the catch returns undefined; else error?.['message']
TryParseErrorMessage(body) ==
    IF body.parsed # "object" THEN Undefined
    ELSE IF body.error.t = "object" THEN body.message
    ELSE Undefined

\* `Codex API error ${response.status}: ${tryParseErrorMessage(errorBody) ?? errorBody}`
ApiErrorMessage(resp) ==
    Str("Codex API error " \o ToString(resp.status) \o ": "
        \o Coalesce(TryParseErrorMessage(resp.body), Str(resp.body.raw)).v)

\* no request made
NoRequest == [pc |-> "none", calls |-> 0, response |-> [status |-> 0, body |-> NoErrorBody]]
\* doStream and doGenerate have called fetch, once, and await it
Fetching == [NoRequest EXCEPT !.pc = "fetch", !.calls = 1]

\* if (!chunk.data || chunk.data === '[DONE]') return / continue
Skipped(r) == r.data \in {"empty", "done"}

\* a mapping that takes incomplete for a length stop
MapFinishReasonIncompleteAsLength(reason) ==
    [unified |-> CASE reason \in {"stop", "completed"} -> "stop"
                   [] reason \in {"length", "max_output_tokens", "incomplete"} -> "length"
                   [] reason = "tool_calls" -> "tool-calls"
                   [] reason = "content_filter" -> "content-filter"
                   [] reason \in {"error", "failed"} -> "error"
                   [] OTHER -> "other",
     raw |-> reason]

\* mapFinishReason
MapFinishReason(reason) ==
    [unified |-> CASE reason \in {"stop", "completed"} -> "stop"
                   [] reason \in {"length", "max_output_tokens"} -> "length"
                   [] reason \in {"tool_calls", "incomplete"} -> "tool-calls"
                   [] reason = "content_filter" -> "content-filter"
                   [] reason \in {"error", "failed"} -> "error"
                   [] OTHER -> "other",
     raw |-> reason]

\* no finish reason: the value of the field in the parts that carry none
NoFinishReason == [unified |-> "", raw |-> ""]

\* a difference that takes a missing subtrahend for zero
MinusDefaultingZero(a, b) ==
    IF a.has THEN Num(a.n - (IF b.has THEN b.n ELSE 0)) ELSE NoNum

\* a - b of two optional numbers: undefined unless both are present
Minus(a, b) == IF a.has /\ b.has THEN Num(a.n - b.n) ELSE NoNum

\* extractUsage(resp)
ExtractUsage(resp) ==
    [inputTokens |-> [total |-> resp.usage.input_tokens,
                      noCache |-> Minus(resp.usage.input_tokens, resp.usage.cached_tokens),
                      cacheRead |-> resp.usage.cached_tokens,
                      cacheWrite |-> NoNum],
     outputTokens |-> [total |-> resp.usage.output_tokens,
                       text |-> Minus(resp.usage.output_tokens, resp.usage.reasoning_tokens),
                       reasoning |-> resp.usage.reasoning_tokens],
     hasRawKey |-> TRUE,
     raw |-> resp.usage]

\* emptyUsage(): no raw key
EmptyUsage ==
    [inputTokens |-> [total |-> NoNum, noCache |-> NoNum, cacheRead |-> NoNum,
                      cacheWrite |-> NoNum],
     outputTokens |-> [total |-> NoNum, text |-> NoNum, reasoning |-> NoNum],
     hasRawKey |-> FALSE,
     raw |-> NoUsageObject]

\* randomUUID(): the n-th identifier drawn by one translation; the two
\* translations never draw the same identifier
RandomUUID(who, n) == Str(who \o "-uuid-" \o ToString(n))

\* map.set(key, value)
MapSet(map, key, value) ==
    [k \in DOMAIN map \cup {key} |-> IF k = key THEN value ELSE map[k]]
\* map.delete(key)
MapDelete(map, key) == [k \in DOMAIN map \ {key} |-> map[k]]
EmptyMap == [k \in {} |-> ""]

\* A part of the output stream (LanguageModelV3StreamPart); rec is the
\* position, in the input, of the record whose transform call enqueued it.
Part(type, rec) ==
    [type |-> type, rec |-> rec, id |-> Undefined, delta |-> Undefined,
     toolName |-> Undefined, input |-> Undefined,
     finishReason |-> NoFinishReason, usage |-> EmptyUsage, warnings |-> <<>>]

IdPart(type, rec, id) == [Part(type, rec) EXCEPT !.id = id]

\* controller.enqueue(part)
Enqueue(s, part) == [s EXCEPT !.out = Append(@, part)]

\* ---- doStream: the branches of transform ----

\* response.output_text.delta
StreamTextDelta(s, r, k) ==
    LET id == RandomUUID("s", s.uuids + 1)
        s1 == IF ~Truthy(s.currentTextId)
              THEN Enqueue([s EXCEPT !.currentTextId = id, !.uuids = @ + 1],
                           IdPart("text-start", k, id))
              ELSE s
    IN Enqueue(s1, [IdPart("text-delta", k, s1.currentTextId) EXCEPT
                      !.delta = Coalesce(r.delta, Str(""))])

\* a response.output_text.done branch that ends the segment and keeps its id
StreamTextDoneKeepingId(s, k) ==
    IF Truthy(s.currentTextId)
    THEN Enqueue(s, IdPart("text-end", k, s.currentTextId))
    ELSE s

\* response.output_text.done
StreamTextDone(s, k) ==
    IF Truthy(s.currentTextId)
    THEN [Enqueue(s, IdPart("text-end", k, s.currentTextId)) EXCEPT
            !.currentTextId = Undefined]
    ELSE s

\* response.reasoning_summary_text.delta
StreamReasoningDelta(s, r, k) ==
    LET id == RandomUUID("s", s.uuids + 1)
        s1 == IF ~Truthy(s.currentReasoningId)
              THEN Enqueue([s EXCEPT !.currentReasoningId = id, !.uuids = @ + 1],
                           IdPart("reasoning-start", k, id))
              ELSE s
    IN Enqueue(s1, [IdPart("reasoning-delta", k, s1.currentReasoningId) EXCEPT
                      !.delta = Coalesce(r.delta, Str(""))])

\* response.reasoning_summary_text.done
StreamReasoningDone(s, k) ==
    IF Truthy(s.currentReasoningId)
    THEN [Enqueue(s, IdPart("reasoning-end", k, s.currentReasoningId)) EXCEPT
            !.currentReasoningId = Undefined]
    ELSE s

\* the test both translations make of response.output_item.added: a
\* function_call item with a name and an id
NamedFunctionCall(r) ==
    /\ r.item.present
    /\ r.item.type = Str("function_call")
    /\ Truthy(r.item.name)
    /\ Truthy(Coalesce(r.item.id, r.item_id))

\* response.output_item.added
StreamItemAdded(s, r, k) ==
    LET itemId == Coalesce(r.item.id, r.item_id)
    IN IF NamedFunctionCall(r)
       THEN Enqueue([s EXCEPT !.toolCallInfo = MapSet(@, itemId.v, r.item.name.v)],
                    [IdPart("tool-input-start", k, itemId) EXCEPT !.toolName = r.item.name])
       ELSE s

\* response.function_call_arguments.delta
StreamArgsDelta(s, r, k) ==
    IF Truthy(r.item_id) /\ Truthy(r.delta)
    THEN LET current == IF r.item_id.v \in DOMAIN s.functionCallArgs
                        THEN s.functionCallArgs[r.item_id.v] ELSE ""
         IN Enqueue([s EXCEPT !.functionCallArgs = MapSet(@, r.item_id.v, current \o r.delta.v)],
                    [IdPart("tool-input-delta", k, r.item_id) EXCEPT !.delta = r.delta])
    ELSE s

\* a resolution that prefers the name on the done record
ToolNamePreferringEvent(toolCallInfo, r) ==
    IF r.name.t # "undefined" THEN r.name
    ELSE IF Truthy(r.item_id) /\ r.item_id.v \in DOMAIN toolCallInfo
    THEN Str(toolCallInfo[r.item_id.v])
    ELSE Str("unknown")

\* toolInfo?.name ?? parsed['name'] ?? 'unknown'
ToolName(toolCallInfo, r) ==
    IF Truthy(r.item_id) /\ r.item_id.v \in DOMAIN toolCallInfo
    THEN Str(toolCallInfo[r.item_id.v])
    ELSE Coalesce(r.name, Str("unknown"))

\* itemId && functionCallArgs.has(itemId)
HasAccumulatedArgs(functionCallArgs, r) ==
    Truthy(r.item_id) /\ r.item_id.v \in DOMAIN functionCallArgs

\* arguments that prefer parsed['arguments'] to the accumulated deltas
CallArgsPreferringEvent(functionCallArgs, r) ==
    IF r.arguments.t = "undefined" /\ HasAccumulatedArgs(functionCallArgs, r)
    THEN Str(functionCallArgs[r.item_id.v])
    ELSE r.arguments

\* the arguments of the call: the accumulated deltas, else parsed['arguments']
CallArgs(functionCallArgs, r) ==
    IF HasAccumulatedArgs(functionCallArgs, r)
    THEN Str(functionCallArgs[r.item_id.v])
    ELSE r.arguments

\* randomUUID() is reached in: parsed['call_id'] ?? itemId ?? randomUUID()
DrawsToolCallId(r) == r.call_id.t = "undefined" /\ r.item_id.t = "undefined"

ToolCallId(r, who, n) == Coalesce(r.call_id, Coalesce(r.item_id, RandomUUID(who, n + 1)))

\* a response.function_call_arguments.done branch that enqueues the call
\* before the end of its input
StreamArgsDoneCallFirst(s, r, k) ==
    LET s1 == [s EXCEPT
                 !.functionCallArgs = IF HasAccumulatedArgs(s.functionCallArgs, r)
                                      THEN MapDelete(@, r.item_id.v) ELSE @,
                 !.uuids = IF DrawsToolCallId(r) THEN @ + 1 ELSE @]
        s2 == Enqueue(s1, [IdPart("tool-call", k, ToolCallId(r, "s", s.uuids)) EXCEPT
                             !.toolName = ToolName(s.toolCallInfo, r),
                             !.input = ArgsString(CallArgs(s.functionCallArgs, r))])
    IN IF Truthy(r.item_id)
       THEN Enqueue(s2, IdPart("tool-input-end", k, r.item_id))
       ELSE s2

\* response.function_call_arguments.done
StreamArgsDone(s, r, k) ==
    LET s1 == [s EXCEPT
                 !.functionCallArgs = IF HasAccumulatedArgs(s.functionCallArgs, r)
                                      THEN MapDelete(@, r.item_id.v) ELSE @,
                 !.uuids = IF DrawsToolCallId(r) THEN @ + 1 ELSE @]
        s2 == IF Truthy(r.item_id)
              THEN Enqueue(s1, IdPart("tool-input-end", k, r.item_id))
              ELSE s1
    IN Enqueue(s2, [IdPart("tool-call", k, ToolCallId(r, "s", s.uuids)) EXCEPT
                      !.toolName = ToolName(s.toolCallInfo, r),
                      !.input = ArgsString(CallArgs(s.functionCallArgs, r))])

\* a response.completed branch that closes the text segment only
StreamCompletedKeepingReasoning(s, r, k) ==
    LET s1 == StreamTextDone(s, k)
        s3 == Enqueue(s1, IdPart("response-metadata", k, r.response.id))
    IN Enqueue(s3, [Part("finish", k) EXCEPT
                      !.finishReason = MapFinishReason(Coalesce(r.response.status, Str("stop")).v),
                      !.usage = ExtractUsage(r.response)])

\* response.completed
StreamCompleted(s, r, k) ==
    LET s1 == StreamTextDone(s, k)
        s2 == StreamReasoningDone(s1, k)
        s3 == Enqueue(s2, IdPart("response-metadata", k, r.response.id))
    IN Enqueue(s3, [Part("finish", k) EXCEPT
                      !.finishReason = MapFinishReason(Coalesce(r.response.status, Str("stop")).v),
                      !.usage = ExtractUsage(r.response)])

\* a catch that also forgets the open text segment
StreamCatchClosingText(s, k) ==
    [Enqueue(s, Part("error", k)) EXCEPT !.currentTextId = Undefined]

\* the catch of transform: controller.enqueue({ type: 'error', error })
StreamCatch(s, k) == Enqueue(s, Part("error", k))

\* transform(chunk, controller), for the k-th record of the input
Transform(s, r, k, raw) ==
    IF Skipped(r) THEN s
    ELSE IF r.data = "malformed" THEN StreamCatch(s, k)
    ELSE LET s1 == IF s.isFirstChunk
                   THEN [Enqueue(s, [Part("stream-start", k) EXCEPT !.warnings = s.warnings])
                           EXCEPT !.isFirstChunk = FALSE]
                   ELSE s
             s2 == IF raw THEN Enqueue(s1, Part("raw", k)) ELSE s1
         IN CASE r.type = "response.output_text.delta" -> StreamTextDelta(s2, r, k)
              [] r.type = "response.output_text.done" -> StreamTextDone(s2, k)
              [] r.type = "response.reasoning_summary_text.delta" -> StreamReasoningDelta(s2, r, k)
              [] r.type = "response.reasoning_summary_text.done" -> StreamReasoningDone(s2, k)
              [] r.type = "response.output_item.added" -> StreamItemAdded(s2, r, k)
              [] r.type = "response.function_call_arguments.delta" -> StreamArgsDelta(s2, r, k)
              [] r.type = "response.function_call_arguments.done" -> StreamArgsDone(s2, r, k)
              [] r.type = "response.completed" -> StreamCompleted(s2, r, k)
              [] OTHER -> s2

\* a catch that drops the text accumulated so far
GenerateCatchDroppingText(g) == [g EXCEPT !.accumulatedText = ""]

\* the catch of the read loop: ignore malformed chunks
GenerateCatch(g) == g

\* ---- doGenerate: the body of the read loop ----
GenerateStep(g, r) ==
    IF Skipped(r) THEN g
    ELSE IF r.data = "malformed" THEN GenerateCatch(g)
    ELSE CASE r.type = "response.output_text.delta" ->
                [g EXCEPT !.accumulatedText = @ \o Coalesce(r.delta, Str("")).v]
           [] r.type = "response.output_item.added" ->
                IF NamedFunctionCall(r)
                THEN [g EXCEPT !.toolCallInfo =
                        MapSet(@, Coalesce(r.item.id, r.item_id).v, r.item.name.v)]
                ELSE g
           [] r.type = "response.function_call_arguments.delta" ->
                IF Truthy(r.item_id) /\ Truthy(r.delta)
                THEN [g EXCEPT !.functionCallArgs =
                        MapSet(@, r.item_id.v,
                               (IF r.item_id.v \in DOMAIN g.functionCallArgs
                                THEN g.functionCallArgs[r.item_id.v] ELSE "") \o r.delta.v)]
                ELSE g
           [] r.type = "response.function_call_arguments.done" ->
                [g EXCEPT
                   !.functionCallArgs = IF HasAccumulatedArgs(g.functionCallArgs, r)
                                        THEN MapDelete(@, r.item_id.v) ELSE @,
                   !.uuids = IF DrawsToolCallId(r) THEN @ + 1 ELSE @,
                   !.toolCalls = Append(@, [toolCallId |-> ToolCallId(r, "g", g.uuids),
                                            toolName |-> ToolName(g.toolCallInfo, r),
                                            input |-> ArgsString(CallArgs(g.functionCallArgs, r))])]
           [] r.type = "response.completed" ->
                [g EXCEPT
                   !.finishReason = MapFinishReason(Coalesce(r.response.status, Str("stop")).v),
                   !.usage = ExtractUsage(r.response),
                   !.responseId = r.response.id]
           [] OTHER -> g

\* fetch resolves with resp: on a status that is not a success doStream and
\* doGenerate throw, else they set up their state and read the body
Respond(resp) ==
    /\ transport.pc = "fetch"
    /\ IF ResponseOk(resp)
       THEN /\ transport' = [transport EXCEPT !.pc = "streaming", !.response = resp]
            /\ UNCHANGED <<stream, buffered>>
       ELSE /\ transport' = [transport EXCEPT !.pc = "failed", !.response = resp]
            /\ stream' = [stream EXCEPT !.thrown = ApiErrorMessage(resp)]
            /\ buffered' = [buffered EXCEPT !.thrown = ApiErrorMessage(resp)]
    /\ UNCHANGED <<sse, includeRawChunks, requests, prompt, converted>>
    /\ UNCHANGED <<options, env, lastHeaders, now, rtVars, faVars>>

\* The next record of the response body reaches both translations of it.
Consume(r) ==
    /\ transport.pc = "streaming"
    /\ ~sse.ended
    /\ sse.n < MaxRecords
    /\ sse' = [sse EXCEPT !.n = @ + 1,
                          !.data = IF Skipped(r) THEN @ ELSE @ + 1]
    /\ stream' = Transform(stream, r, sse.n + 1, includeRawChunks)
    /\ buffered' = GenerateStep(buffered, r)
    /\ UNCHANGED <<includeRawChunks, transport, requests, prompt, converted>>
    /\ UNCHANGED <<options, env, lastHeaders, now, rtVars, faVars>>

\* The response body ends: reader.read() reports done and doGenerate
\* returns; the transform has no flush step, so the output stream just closes.
EndOfStream ==
    /\ transport.pc = "streaming"
    /\ ~sse.ended
    /\ sse' = [sse EXCEPT !.ended = TRUE]
    /\ UNCHANGED <<stream, buffered>>
    /\ UNCHANGED <<includeRawChunks, transport, requests, prompt, converted>>
    /\ UNCHANGED <<options, env, lastHeaders, now, rtVars, faVars>>

\* the closure state of doStream's transform, as it is declared, with the
\* warnings of buildRequestBody
StreamLocals(warnings) ==
    [isFirstChunk |-> TRUE, currentTextId |-> Undefined,
     currentReasoningId |-> Undefined, toolCallInfo |-> EmptyMap,
     functionCallArgs |-> EmptyMap, uuids |-> 0, out |-> <<>>,
     thrown |-> Undefined, warnings |-> warnings]

\* locals of doGenerate that start without a finish reason
GenerateLocalsUnfinished(warnings) ==
    [accumulatedText |-> "", toolCallInfo |-> EmptyMap,
     functionCallArgs |-> EmptyMap, toolCalls |-> <<>>,
     finishReason |-> MapFinishReason("unknown"), usage |-> EmptyUsage,
     responseId |-> Undefined, uuids |-> 0, thrown |-> Undefined,
     warnings |-> warnings]

\* the locals of doGenerate, as they are declared, with the warnings of
\* buildRequestBody
GenerateLocals(warnings) ==
    [accumulatedText |-> "", toolCallInfo |-> EmptyMap,
     functionCallArgs |-> EmptyMap, toolCalls |-> <<>>,
     finishReason |-> MapFinishReason("stop"), usage |-> EmptyUsage,
     responseId |-> Undefined, uuids |-> 0, thrown |-> Undefined,
     warnings |-> warnings]

\* what doGenerate returns: the text, if any, then the tool calls; the
\* finish reason, the usage and the warnings
GenerateResult(g) ==
    [content |-> (IF g.accumulatedText # ""
                  THEN <<[type |-> "text", text |-> g.accumulatedText]>> ELSE <<>>)
                 \o [i \in 1..Len(g.toolCalls) |->
                       [type |-> "tool-call", call |-> g.toolCalls[i]]],
     finishReason |-> g.finishReason,
     usage |-> g.usage,
     warnings |-> g.warnings,
     responseId |-> g.responseId]

\* ---- concurrent calls on one model handle ----

\* the calls a behaviour follows
RequestIds == {1, 2}

\* the records the bodies of concurrent calls deliver
RequestRecords ==
    {r \in Records :
        /\ r.data = "json"
        /\ \/ r.type = "response.output_text.delta" /\ Truthy(r.delta)
           \/ r.type = "response.output_item.added" /\ NamedFunctionCall(r)
           \/ r.type = "response.function_call_arguments.delta"
           \/ r.type = "response.function_call_arguments.done" /\ Truthy(r.call_id)
           \/ r.type = "response.completed" /\ ~r.response.present}

\* the locals a call declares once fetch has resolved
RequestLocals(kind, callOptions) ==
    IF kind = "stream"
    THEN StreamLocals(BuildRequestBody(callOptions).warnings)
    ELSE GenerateLocals(BuildRequestBody(callOptions).warnings)

\* A doStream ("stream") or doGenerate ("generate") call that has built its
\* request body and called fetch: fed is the records its body has delivered.
Request(kind, callOptions) ==
    [kind |-> kind, callOptions |-> callOptions, pc |-> "fetch", fetched |-> 1,
     fed |-> <<>>, locals |-> RequestLocals(kind, callOptions)]

\* a closure that shares the name map and the accumulators of the first call
ClosureOfFirstCall(reqs, q) ==
    IF reqs[1].pc = "fetch" THEN reqs[q].locals
    ELSE [reqs[q].locals EXCEPT !.toolCallInfo = reqs[1].locals.toolCallInfo,
                                !.functionCallArgs = reqs[1].locals.functionCallArgs]

\* the variables the transform, or the read loop, of call q is closed over:
\* the ones its own call declared
Closure(reqs, q) == reqs[q].locals

\* the translation of one record by a call of the given kind
RequestStep(kind, callOptions, locals, r, k) ==
    IF kind = "stream"
    THEN Transform(locals, r, k, callOptions.includeRawChunks)
    ELSE GenerateStep(locals, r)

\* fetch resolves for call q with a success status
RequestRespond(q) ==
    /\ requests[q].pc = "fetch"
    /\ requests' = [requests EXCEPT ![q].pc = "reading"]
    /\ UNCHANGED <<includeRawChunks, transport, sse, stream, buffered, prompt, converted>>
    /\ UNCHANGED <<options, env, lastHeaders, now, rtVars, faVars>>

\* the body of call q delivers its next record
RequestConsume(q, r) ==
    /\ requests[q].pc = "reading"
    /\ Len(requests[1].fed) + Len(requests[2].fed) < MaxRequestRecords
    /\ requests' = [requests EXCEPT
                       ![q].fed = Append(@, r),
                       ![q].locals = RequestStep(requests[q].kind, requests[q].callOptions,
                                                 Closure(requests, q), r,
                                                 Len(requests[q].fed) + 1)]
    /\ UNCHANGED <<includeRawChunks, transport, sse, stream, buffered, prompt, converted>>
    /\ UNCHANGED <<options, env, lastHeaders, now, rtVars, faVars>>

\* the body of call q ends: doGenerate returns, the stream of doStream closes
RequestEnd(q) ==
    /\ requests[q].pc = "reading"
    /\ requests' = [requests EXCEPT ![q].pc = "done"]
    /\ UNCHANGED <<includeRawChunks, transport, sse, stream, buffered, prompt, converted>>
    /\ UNCHANGED <<options, env, lastHeaders, now, rtVars, faVars>>

\* no call is followed
NoRequests == [q \in RequestIds |-> [Request("stream", DefaultCallOptions) EXCEPT
                                       !.pc = "none", !.fetched = 0]]

\* no concurrent call and no conversion is followed
IdleModel ==
    /\ requests = NoRequests
    /\ prompt = <<>>
    /\ converted = NotConverted

\* the locals of doStream and of doGenerate, as they are declared
TrLocals ==
    /\ sse = [n |-> 0, data |-> 0, ended |-> FALSE]
    /\ stream = StreamLocals(BuildRequestBody(DefaultCallOptions).warnings)
    /\ buffered = GenerateLocals(BuildRequestBody(DefaultCallOptions).warnings)

\* doStream and doGenerate have been called and await fetch
TrInit ==
    /\ TrLocals
    /\ transport = Fetching
    /\ IdleModel

\* the translator of a behaviour that makes no request
IdleTrInit ==
    /\ TrLocals
    /\ transport = NoRequest
    /\ includeRawChunks = FALSE
    /\ IdleModel

FaInit ==
    /\ authFile \in InitialFiles
    /\ faHeap = [o \in ObjIds |-> EmptyAuth]
    /\ cachedAuth = 0
    /\ refreshPromise = 0
    /\ faPromise = [p \in PromiseIds |-> "unborn"]
    /\ faSent = <<>>
    /\ faPc = [c \in Callers |-> "idle"]
    /\ faAwait = [c \in Callers |-> 0]
    /\ faLoad = [t \in FaThreads |-> NoLoad]
    /\ faLocal = [c \in Callers |-> NoLocal]
    /\ faTask = NoTask

RtInit ==
    /\ refreshSession = NoSession
    /\ refreshSessionPromise = 0
    /\ rtPromise = [p \in PromiseIds |-> "unborn"]
    /\ rtSent = <<>>
    /\ rtReceived = [p \in PromiseIds |-> Unanswered]
    /\ rtPc = [c \in Callers |-> "idle"]
    /\ rtAwait = [c \in Callers |-> 0]
    /\ rtPath = [c \in Callers |-> "none"]
    /\ rtReturned = NoResult

\* the auth file of a behaviour that never reads it
IdleFaInit ==
    /\ FaInit
    /\ authFile = NoFile

Options(apiKey, refreshToken, useApiKey, headers) ==
    [apiKey |-> apiKey, refreshToken |-> refreshToken, useApiKey |-> useApiKey,
     headers |-> headers]

\* before the first call of getHeaders
IdleInit ==
    /\ env = FALSE
    /\ lastHeaders = NoHeaders

RtNext ==
    \/ \E c \in Callers : RtCall(c)
    \/ \E p \in PromiseIds : \E resp \in ExchangeResponses : RtExchangeSettle(p, resp)
    \/ \E c \in Callers : RtOwnResume(c)
    \/ \E c \in Callers : RtJoinResume(c)
    \/ \E c \in Callers : RtReturn(c)
    \/ Tick

FaNext ==
    \/ \E c \in Callers : FaCall(c)
    \/ \E t \in FaThreads : FaReadIO(t)
    \/ \E t \in FaThreads : FaReadResume(t)
    \/ \E c \in Callers : FaGa207(c)
    \/ \E c \in Callers : FaRa261(c)
    \/ \E c \in Callers : FaRa269(c)
    \/ \E c \in Callers : FaRaLoaded(c)
    \/ \E c \in Callers : FaGa212(c)
    \/ \E c \in Callers : FaGa213(c)
    \/ \E c \in Callers : FaGh249(c)
    \/ \E c \in Callers : FaGi232(c)
    \/ \E c \in Callers : FaGh250(c)
    \/ FaTaskLoaded
    \/ \E resp \in FileExchangeResponses : FaExchangeSettle(resp)
    \/ \E ok \in BOOLEAN : FaWriteIO(ok)
    \/ FaWriteResume
    \/ Tick

\* a provider created with refreshToken (and no apiKey)
InitRefresh ==
    /\ options = Options(FALSE, TRUE, FALSE, NoHeaders)
    /\ IdleInit
    /\ now = 0
    /\ RtInit
    /\ IdleFaInit
    /\ IdleTrInit

SpecRefresh == InitRefresh /\ [][RtNext]_vars

\* The event loop runs every continuation that is ready (the microtask of a
\* settled promise or of a returned async call), and every token exchange
\* completes; nothing obliges a caller to call, or time to pass.
RtFairness ==
    /\ \A c \in Callers : WF_vars(RtOwnResume(c))
    /\ \A c \in Callers : WF_vars(RtJoinResume(c))
    /\ \A c \in Callers : WF_vars(RtReturn(c))
    /\ \A p \in PromiseIds : WF_vars(\E resp \in ExchangeResponses : RtExchangeSettle(p, resp))

SpecRefreshLive == InitRefresh /\ [][RtNext]_vars /\ RtFairness

\* a provider created without apiKey, refreshToken and useApiKey
InitFile ==
    /\ options = Options(FALSE, FALSE, FALSE, NoHeaders)
    /\ IdleInit
    /\ now = 0
    /\ RtInit
    /\ FaInit
    /\ IdleTrInit

SpecFile == InitFile /\ [][FaNext]_vars

\* a provider of either mode
InitAuth == InitRefresh \/ InitFile

AuthNext ==
    \/ options.refreshToken /\ RtNext
    \/ ~options.refreshToken /\ FaNext

SpecAuth == InitAuth /\ [][AuthNext]_vars

\* The auth files of a provider of any mode: an identity token that expires
\* late, an api_key alone, no file.
ProviderFiles ==
    {FileOf(AuthDotJson(TRUE, IdToken(TRUE, 1800 * MaxExpHalfHours, TRUE, 0), TRUE, TRUE, TRUE, FALSE)),
     FileOf(AuthDotJson(FALSE, NoIdToken, FALSE, FALSE, FALSE, TRUE)),
     NoFile}

\* a provider created with any combination of apiKey, refreshToken,
\* useApiKey and headers, in any environment
InitProvider ==
    /\ options \in {Options(k, r, u, h) : k \in BOOLEAN, r \in BOOLEAN, u \in BOOLEAN,
                                          h \in CustomHeaderSets}
    /\ env \in BOOLEAN
    /\ lastHeaders = NoHeaders
    /\ now = 0
    /\ RtInit
    /\ FaInit
    /\ authFile \in ProviderFiles
    /\ IdleTrInit

ProviderNext ==
    \/ KeyCall
    \/ EnvCall
    \/ RtNext
    \/ FaNext

SpecProvider == InitProvider /\ [][ProviderNext]_vars

\* one response body, read by doStream and by doGenerate
InitTranslate ==
    /\ options = Options(TRUE, FALSE, FALSE, NoHeaders)
    /\ IdleInit
    /\ now = 0
    /\ RtInit
    /\ IdleFaInit
    /\ TrInit
    /\ includeRawChunks \in BOOLEAN

TranslateNext ==
    \/ \E resp \in TransportResponses : Respond(resp)
    \/ \E r \in Records : Consume(r)
    \/ EndOfStream

SpecTranslate == InitTranslate /\ [][TranslateNext]_vars

\* two calls on one model handle, their bodies delivered in any interleaving
InitRequests ==
    /\ options = Options(TRUE, FALSE, FALSE, NoHeaders)
    /\ IdleInit
    /\ now = 0
    /\ RtInit
    /\ IdleFaInit
    /\ TrLocals
    /\ transport = NoRequest
    /\ includeRawChunks = FALSE
    /\ prompt = <<>>
    /\ converted = NotConverted
    /\ \E k1, k2 \in {"stream", "generate"} : \E o \in CallOptionSets :
          requests = [q \in RequestIds |->
                        IF q = 1 THEN Request(k1, o) ELSE Request(k2, DefaultCallOptions)]

RequestsNext ==
    \E q \in RequestIds :
        \/ RequestRespond(q)
        \/ \E r \in RequestRecords : RequestConsume(q, r)
        \/ RequestEnd(q)

SpecRequests == InitRequests /\ [][RequestsNext]_vars

\* the prompts of up to MaxMessages messages
Prompts == UNION {[1..n -> Messages] : n \in 0..MaxMessages}

\* one prompt, converted by convertToCodexInput
InitConvert ==
    /\ options = Options(TRUE, FALSE, FALSE, NoHeaders)
    /\ IdleInit
    /\ now = 0
    /\ RtInit
    /\ IdleFaInit
    /\ TrLocals
    /\ transport = NoRequest
    /\ includeRawChunks = FALSE
    /\ requests = NoRequests
    /\ prompt \in Prompts
    /\ converted = NotConverted

ConvertNext == Convert

SpecConvert == InitConvert /\ [][ConvertNext]_vars

(***************************************************************************)
(* Properties of the refresh single-flight discipline.                     *)
(***************************************************************************)
\* C1: in refresh-token mode at most one token exchange is in flight at any
\* time, it is the one the slot holds, it has one starter, and every other
\* caller that waits for an exchange in flight waits for that one.
SingleFlightRefresh ==
    /\ Cardinality({p \in PromiseIds : rtPromise[p] = "pending"}) <= 1
    /\ \A p \in PromiseIds : rtPromise[p] = "pending" => refreshSessionPromise = p
    /\ \A c \in Callers :
         (rtPc[c] \in {"own", "join"} /\ rtPromise[rtAwait[c]] = "pending")
            => rtAwait[c] = refreshSessionPromise
    /\ \A c1, c2 \in Callers :
         (rtPc[c1] = "own" /\ rtPc[c2] = "own" /\ rtAwait[c1] = rtAwait[c2]) => c1 = c2

\* two calls in progress without a usable session, on one exchange
TwoCallersOneExchange ==
    \E c1, c2 \in Callers :
        /\ rtPc[c1] = "own" /\ rtPc[c2] = "join"
        /\ rtAwait[c1] = rtAwait[c2]
        /\ rtPromise[rtAwait[c1]] = "pending"
        /\ Len(rtSent) = 1

\* C2: in file-based mode no caller starts a token exchange on account of a
\* record that a refresh completed during its call has already replaced in
\* the auth file: concurrent calls coalesce onto one exchange.
NoRedundantFileExchange ==
    [][\A c \in Callers :
         (faPc[c] = "ga207" /\ faPc'[c] = "ra269")
            => faHeap[faLoad[c].obj].idToken.gen >= authFile.rec.idToken.gen]_vars

\* C3: whenever a caller decides whether to start an exchange, the slot does
\* not hold an exchange that has completed: it is empty, or the exchange it
\* holds is still in flight (both modes).
SlotEmptyOnceCompleted ==
    [][/\ \A c \in Callers :
            (rtPc[c] = "idle" /\ rtPc'[c] # "idle" /\ refreshSessionPromise # 0)
               => rtPromise[refreshSessionPromise] = "pending"
       /\ \A c \in Callers :
            (faPc[c] = "ga207" /\ faPc'[c] \in {"ra261", "ra269"} /\ refreshPromise # 0)
               => faPromise[refreshPromise] = "pending"]_vars

\* C15: an exchange fails exactly when the answer is not a success or its
\* identity token has no account id, and then stores nothing: the step that
\* rejects its promise leaves the session as it is, a session never lacks the
\* account id,
\* and the session does not change while an exchange is in flight unless that
\* exchange succeeds; the starter and every caller that joined the failed
\* exchange then throw, and their steps call no exchange, return no header
\* set and leave the session as it is.
FailedExchangeFatal ==
    [][/\ \A p \in PromiseIds :
            (rtPromise[p] = "pending" /\ rtPromise'[p] # "fulfilled")
               => refreshSession' = refreshSession
       /\ \A p \in PromiseIds :
            (rtPromise[p] = "pending" /\ rtPromise'[p] = "rejected")
               => rtSent' = rtSent /\ refreshSessionPromise' = refreshSessionPromise
       /\ \A p \in PromiseIds :
            (rtPromise[p] = "pending" /\ rtPromise'[p] # "pending")
               => (rtPromise'[p] = "rejected"
                     <=> (~rtReceived'[p].ok \/ ~rtReceived'[p].hasAccount))
       /\ refreshSession'.present => refreshSession'.accountId # 0
       /\ \A c \in Callers :
            (/\ rtPc[c] \in {"own", "join"} /\ rtPc'[c] # rtPc[c]
             /\ rtPromise[rtAwait[c]] = "rejected")
               => /\ rtPc'[c] = "idle"
                  /\ rtReturned'.kind = "error" /\ rtReturned'.caller = c
                  /\ UNCHANGED <<rtSent, rtPromise, refreshSession, lastHeaders>>]_vars

\* the exchange of a provider with a session has failed, its starter has
\* thrown, and the caller that joined it is about to
StarterThrewJoinerNext ==
    \E c1, c2 \in Callers :
        /\ rtPc[c1] = "join" /\ rtPromise[rtAwait[c1]] = "rejected"
        /\ rtPc[c2] = "idle" /\ rtReturned = ErrorResult(c2)
        /\ refreshSessionPromise = 0
        /\ refreshSession.present

\* C16: the step that completes an exchange with success stores a session
\* made of the exchange's access token and account id, of the expiry
\* exp * 1000 (unknown without an exp claim), and of the refresh token the
\* answer carries, or the token that was sent exactly when the answer carries
\* none; no other step changes the session.
SessionReplacedWhole ==
    [][/\ \A p \in PromiseIds :
            (rtPromise[p] = "pending" /\ rtPromise'[p] = "fulfilled")
               => /\ rtReceived'[p].ok
                  /\ refreshSession' =
                        [present |-> TRUE,
                         accessToken |-> p,
                         accountId |-> p,
                         refreshToken |-> IF rtReceived'[p].rotates
                                          THEN [rotation |-> p] ELSE rtSent[p],
                         expiresAt |-> IF rtReceived'[p].hasExp
                                       THEN [known |-> TRUE, at |-> rtReceived'[p].exp * 1000]
                                       ELSE [known |-> FALSE, at |-> 0]]
                  /\ (refreshSession'.refreshToken = rtSent[p]) <=> ~rtReceived'[p].rotates
       /\ refreshSession' # refreshSession
            => \E p \in PromiseIds : rtPromise[p] = "pending" /\ rtPromise'[p] = "fulfilled"]_vars

\* the second exchange succeeded with an answer that has no refresh token and
\* no exp claim, after a first one that had rotated the token
SecondExchangeKeptRotatedToken ==
    /\ refreshSession.present
    /\ refreshSession.accessToken = 2
    /\ refreshSession.refreshToken = RotatedToken(1)
    /\ ~refreshSession.expiresAt.known
    /\ rtSent[2] = RotatedToken(1)

\* C10: a call that finds a session whose expiry is unknown or more than one
\* hour after the current time returns without an exchange call and leaves
\* the session and the slot as they are; any other call waits for an
\* exchange, one in flight or its own.
FastPathIffSessionFresh ==
    [][\A c \in Callers :
         (rtPc[c] = "idle" /\ rtPc'[c] # "idle")
            => IF /\ refreshSession.present
                  /\ \/ ~refreshSession.expiresAt.known
                     \/ refreshSession.expiresAt.at > now + OneHourMs
               THEN /\ rtPc'[c] = "ret"
                    /\ rtSent' = rtSent
                    /\ rtPromise' = rtPromise
                    /\ refreshSession' = refreshSession
                    /\ refreshSessionPromise' = refreshSessionPromise
               ELSE /\ rtPc'[c] \in {"join", "own"}
                    /\ rtPromise'[rtAwait'[c]] \in {"pending", "fulfilled", "rejected"}]_vars

\* a call took the fast path on a session with a known expiry
FastPathTaken ==
    \E c \in Callers :
        /\ rtPc[c] = "ret" /\ rtPath[c] = "fast"
        /\ refreshSession.present /\ refreshSession.expiresAt.known
        /\ Len(rtSent) >= 1

(***************************************************************************)
(* Properties of the provider's getHeaders.                                *)
(***************************************************************************)
\* C13: the mode is the first of apiKey, refreshToken, useApiKey, auth file
\* that is set, whatever the other options, the environment and the auth file
\* are: with apiKey no step touches the session, the exchanges or the auth
\* file and the credential is the key; with refreshToken (no apiKey) no step
\* touches CodexAuth's cache or reads the file and the credential and the
\* account id are the session's; with useApiKey alone the credential is the
\* environment's; otherwise they are the auth file's.
StrictPrecedence ==
    [][/\ options.apiKey
            => /\ UNCHANGED <<rtVars, faVars>>
               /\ lastHeaders' # lastHeaders
                     => /\ lastHeaders'["Authorization"] = Bearer("apiKey", 0)
                        /\ "chatgpt-account-id" \notin DOMAIN lastHeaders'
       /\ (~options.apiKey /\ options.refreshToken)
            => /\ UNCHANGED faVars
               /\ lastHeaders' # lastHeaders
                     => /\ "chatgpt-account-id" \in DOMAIN lastHeaders'
                        /\ lastHeaders'["chatgpt-account-id"].src = "session"
                        /\ "Authorization" \notin DOMAIN options.headers
                              => lastHeaders'["Authorization"].src = "session"
       /\ (~options.apiKey /\ ~options.refreshToken /\ options.useApiKey)
            => /\ UNCHANGED <<rtVars, faVars>>
               /\ lastHeaders' # lastHeaders
                     => /\ env
                        /\ lastHeaders'["Authorization"] = Bearer("env", 0)
       /\ (~options.apiKey /\ ~options.refreshToken /\ ~options.useApiKey)
            => /\ UNCHANGED rtVars
               /\ lastHeaders' # lastHeaders
                     => /\ "chatgpt-account-id" \in DOMAIN lastHeaders'
                        /\ lastHeaders'["chatgpt-account-id"].src \in {"tokens", "idToken"}
                        /\ "Authorization" \notin DOMAIN options.headers
                              => lastHeaders'["Authorization"].src \in {"access", "apiKey"}]_vars

\* a provider created with all of apiKey, refreshToken and useApiKey, in an
\* environment with OPENAI_API_KEY and an auth file, has returned headers
AllOptionsSetReturned ==
    /\ options.apiKey /\ options.refreshToken /\ options.useApiKey
    /\ env /\ authFile.exists
    /\ lastHeaders # NoHeaders

\* C14: in every mode a returned header set has Authorization,
\* chatgpt-account-id, Content-Type and accept, every header of
\* options.headers has the caller's value in it, and the headers the caller
\* does not name are the bearer credential, application/json and
\* text/event-stream.
HeadersLayeredCustomLast ==
    [][lastHeaders' # lastHeaders
         => /\ {"Authorization", "chatgpt-account-id", "Content-Type", "accept"}
                  \subseteq DOMAIN lastHeaders'
            /\ \A k \in DOMAIN options.headers : lastHeaders'[k] = options.headers[k]
            /\ "Authorization" \notin DOMAIN options.headers
                  => lastHeaders'["Authorization"].kind = "bearer"
            /\ "Content-Type" \notin DOMAIN options.headers
                  => lastHeaders'["Content-Type"] = Text("application/json")
            /\ lastHeaders'["accept"] = Text("text/event-stream")]_vars

(***************************************************************************)
(* Properties of file-based mode.                                          *)
(***************************************************************************)
\* the identity token of the record is at least one hour from its expiry
IdTokenFresh(auth, t) ==
    auth.tokens /\ auth.idToken.present /\ auth.idToken.hasExp
        /\ auth.idToken.exp * 1000 - t >= OneHourMs

\* C11: a call of CodexAuth.getHeaders that finds in the cache a record whose
\* identity token is at least one hour from its expiry starts no refresh;
\* until it returns no exchange is called and the cached record stays as it
\* is; its own steps read and write no file; the header set it returns is
\* determined by the cached record, so two such calls return equal sets.
FreshCallsIdempotent ==
    [][\A c \in Callers :
         /\ (/\ faPc[c] = "ga207" /\ faPc'[c] # "ga207" /\ faLoad[c].st = "ready"
             /\ IdTokenFresh(faHeap[faLoad[c].obj], now))
               => /\ faLoad[c].obj = cachedAuth
                  /\ faPc'[c] \in {"gh249", "idle"}
                  /\ faLocal'[c].path \in {"fresh", "none"}
                  /\ UNCHANGED <<faSent, faPromise, refreshPromise, faTask>>
         /\ faLocal[c].path = "fresh"
               => /\ cachedAuth # 0
                  /\ UNCHANGED <<faSent, cachedAuth>>
                  /\ faHeap'[cachedAuth] = faHeap[cachedAuth]
                  /\ faPc'[c] # faPc[c]
                        => /\ UNCHANGED <<authFile, faPromise, refreshPromise, faTask>>
                           /\ faLoad'[c].st # "reading"
                  /\ \A c2 \in Callers :
                        (faLocal[c2].path = "fresh" /\ faPc[c2] = "gh250" /\ faPc[c] = "gh250")
                           => /\ faLocal[c2].token = faLocal[c].token
                              /\ faLocal[c2].account = faLocal[c].account
                  /\ (faPc[c] = "gh250" /\ faPc'[c] = "idle")
                        => lastHeaders' =
                             FileHeaders(CodexAuthHeaders(AccessTokenOrKey(faHeap[cachedAuth]),
                                                          AccountIdOf(faHeap[cachedAuth])),
                                         options.headers)]_vars

\* two calls that found the identity token exactly one hour from its expiry
\* are about to return, after an earlier call has returned
TwoFreshCallsReturn ==
    /\ \A c \in Callers : faPc[c] = "gh250" /\ faLocal[c].path = "fresh"
    /\ cachedAuth # 0
    /\ faHeap[cachedAuth].idToken.exp * 1000 - now = OneHourMs
    /\ lastHeaders # NoHeaders
    /\ faSent = <<>>

\* C12: a loadAuthJson call that completes its file read while no write of
\* doRefreshToken is under way (every write made so far has returned and
\* cleared the cache) returns, and leaves in the cache, a record at least as
\* recent as the one in the auth file.
LoadReflectsWrite ==
    [][\A t \in FaThreads :
         (/\ faLoad[t].st = "read" /\ faLoad'[t].st = "ready"
          /\ faTask.pc # "write" /\ authFile.exists)
            => /\ faHeap'[faLoad'[t].obj].idToken.gen >= authFile.rec.idToken.gen
               /\ faHeap'[cachedAuth'].idToken.gen >= authFile.rec.idToken.gen]_vars

\* C17: the text doRefreshToken writes is the record it loaded with the
\* answer's id_token and access_token, with the answer's refresh_token or,
\* when the answer has none, the old one, with last_refresh set to the
\* current time, and with api_key and tokens.account_id as loaded; the auth
\* file changes only by a write, which replaces it by that text.
RefreshWritesWholeRecord ==
    [][/\ (faTask.pc = "exchange" /\ faTask'.pc = "write")
            => LET read == faHeap[faTask.auth]
                   written == faTask'.data
                   answer == faTask'.tokenResponse
                   k == Len(faSent)
               IN /\ written.tokens
                  /\ written.idToken =
                        [present |-> TRUE, hasExp |-> answer.hasExp, exp |-> answer.exp,
                         hasAccount |-> answer.hasAccount, gen |-> k]
                  /\ written.accessToken = [present |-> TRUE, gen |-> k]
                  /\ written.refreshToken = IF answer.rotates
                                            THEN [present |-> TRUE, rotation |-> k]
                                            ELSE read.refreshToken
                  /\ written.lastRefresh = [set |-> TRUE, at |-> now]
                  /\ written.apiKey = read.apiKey
                  /\ written.accountId = read.accountId
       /\ authFile' # authFile
            => /\ faTask.pc = "write"
               /\ authFile' = [exists |-> TRUE, rec |-> faTask.data]]_vars

\* a refresh has written a record that has no tokens.account_id and keeps the
\* refresh token of the record that was read
WrittenKeepsOldRefreshToken ==
    /\ authFile.exists
    /\ authFile.rec.lastRefresh.set
    /\ authFile.rec.accessToken.gen = 1
    /\ authFile.rec.refreshToken = [present |-> TRUE, rotation |-> 0]
    /\ ~authFile.rec.accountId
    /\ faTask.pc = "none"

(***************************************************************************)
(* Properties of the translator.                                           *)
(***************************************************************************)
StartTypes == {"text-start", "reasoning-start", "tool-input-start"}
EndTypes == {"text-end", "reasoning-end", "tool-input-end"}
\* the *-end that closes a *-start
EndOf(type) ==
    CASE type = "text-start" -> "text-end"
      [] type = "reasoning-start" -> "reasoning-end"
      [] type = "tool-input-start" -> "tool-input-end"

\* the text a reader of the stream assembles: the text deltas, concatenated
StreamText(out) ==
    LET text[i \in 0..Len(out)] ==
            IF i = 0 THEN ""
            ELSE text[i - 1] \o (IF out[i].type = "text-delta" THEN out[i].delta.v ELSE "")
    IN text[Len(out)]

\* the tool calls a reader of the stream collects
StreamToolCalls(out) ==
    LET calls == SelectSeq(out, LAMBDA p : p.type = "tool-call")
    IN [i \in 1..Len(calls) |->
          [toolCallId |-> calls[i].id, toolName |-> calls[i].toolName, input |-> calls[i].input]]

\* the finish parts of the stream
StreamFinishes(out) == SelectSeq(out, LAMBDA p : p.type = "finish")

\* C4: once the response body has ended, the stream and the buffered result
\* carry the same text, the same tool calls, the same usage and the same
\* finish reason.
ModeEquivalence ==
    sse.ended =>
        /\ StreamText(stream.out) = buffered.accumulatedText
        /\ StreamToolCalls(stream.out) = buffered.toolCalls
        /\ StreamFinishes(stream.out) # <<>>
        /\ LET finish == StreamFinishes(stream.out)[Len(StreamFinishes(stream.out))]
           IN /\ finish.finishReason = buffered.finishReason
              /\ finish.usage = buffered.usage

\* C5: once the response body has ended, every *-start of the stream is
\* followed by exactly one matching *-end, and no finish comes between them.
EverySegmentClosed ==
    sse.ended =>
        \A i \in 1..Len(stream.out) :
            stream.out[i].type \in StartTypes =>
                /\ \E j \in (i + 1)..Len(stream.out) :
                      /\ stream.out[j].type = EndOf(stream.out[i].type)
                      /\ stream.out[j].id = stream.out[i].id
                      /\ \A m \in i..j : stream.out[m].type # "finish"
                /\ Cardinality({j \in 1..Len(stream.out) :
                                  /\ stream.out[j].type = EndOf(stream.out[i].type)
                                  /\ stream.out[j].id = stream.out[i].id}) = 1

\* the parts a step enqueued
Enqueued == SubSeq(stream'.out, Len(stream.out) + 1, Len(stream'.out))

\* C6: the step that consumes response.completed (the only one to enqueue a
\* finish) enqueues text-end for the open text segment, then reasoning-end
\* for the open reasoning segment, then response-metadata, then finish, and
\* leaves no text or reasoning segment open.
CompletedClosesSegments ==
    [][(\E i \in 1..Len(Enqueued) : Enqueued[i].type = "finish") =>
         LET parts == SelectSeq(Enqueued, LAMBDA p : p.type \notin {"stream-start", "raw"})
             ends == (IF Truthy(stream.currentTextId)
                      THEN <<[type |-> "text-end", id |-> stream.currentTextId]>>
                      ELSE <<>>)
                     \o (IF Truthy(stream.currentReasoningId)
                         THEN <<[type |-> "reasoning-end", id |-> stream.currentReasoningId]>>
                         ELSE <<>>)
         IN /\ Len(parts) = Len(ends) + 2
            /\ \A i \in 1..Len(ends) :
                 parts[i].type = ends[i].type /\ parts[i].id = ends[i].id
            /\ parts[Len(ends) + 1].type = "response-metadata"
            /\ parts[Len(ends) + 2].type = "finish"
            /\ ~Truthy(stream'.currentTextId)
            /\ ~Truthy(stream'.currentReasoningId)]_vars

\* response.completed arrived with a text and a reasoning segment open
CompletedWithBothOpen ==
    \E i, j, k \in 1..Len(stream.out) :
        /\ i < j /\ j < k
        /\ stream.out[i].type = "text-end"
        /\ stream.out[j].type = "reasoning-end"
        /\ stream.out[k].type = "finish"
        /\ stream.out[i].rec = stream.out[k].rec
        /\ stream.out[j].rec = stream.out[k].rec

\* C7: the parts of the stream are in the order of the records that caused
\* them, and every *-end follows a *-start of its kind and id that no
\* earlier *-end has closed.
EndOnlyAfterOpenStart ==
    /\ \A i, j \in 1..Len(stream.out) : i < j => stream.out[i].rec <= stream.out[j].rec
    /\ \A j \in 1..Len(stream.out) :
         stream.out[j].type \in EndTypes =>
            \E i \in 1..(j - 1) :
                /\ stream.out[i].type \in StartTypes
                /\ EndOf(stream.out[i].type) = stream.out[j].type
                /\ stream.out[i].id = stream.out[j].id
                /\ \A m \in (i + 1)..(j - 1) :
                     ~(stream.out[m].type = stream.out[j].type
                       /\ stream.out[m].id = stream.out[j].id)

\* C8: once a record with data other than [DONE] has been consumed, the
\* stream holds exactly one stream-start.
StreamStartExactlyOnce ==
    sse.data >= 1 =>
        Cardinality({i \in 1..Len(stream.out) : stream.out[i].type = "stream-start"}) = 1

\* C9: the first part of the stream is stream-start.
StreamStartFirst ==
    stream.out # <<>> => stream.out[1].type = "stream-start"

\* C18: when fetch resolves with a status that is not a success, doStream
\* and doGenerate have thrown `Codex API error <status>: <detail>`, where the
\* detail is error.message of the body when the body parses to an object
\* whose error is an object with a message, and the text of the body
\* otherwise; no record has been consumed, no part enqueued, nothing
\* accumulated, and fetch has been called once.
TransportErrorFatal ==
    /\ transport.calls <= 1
    /\ (transport.pc \in {"streaming", "failed"} /\ transport.response.status \notin 200..299)
          => LET body == transport.response.body
                 detail == IF body.parsed = "object" /\ body.error.t = "object"
                              /\ body.message.t = "string"
                           THEN body.message.v ELSE body.raw
                 message == Str("Codex API error " \o ToString(transport.response.status)
                                  \o ": " \o detail)
             IN /\ transport.pc = "failed"
                /\ transport.calls = 1
                /\ stream.thrown = message /\ buffered.thrown = message
                /\ sse.n = 0 /\ stream.out = <<>>
                /\ buffered.accumulatedText = "" /\ buffered.toolCalls = <<>>
    /\ transport.pc # "failed" => stream.thrown = Undefined /\ buffered.thrown = Undefined

\* a response with a structured error body has made both calls throw
StructuredErrorThrown ==
    /\ transport.pc = "failed"
    /\ transport.response.body.message = Str("quota")
    /\ stream.thrown = Str("Codex API error 401: quota")
    /\ buffered.thrown = Str("Codex API error 401: quota")

\* the step consumed a record whose data JSON.parse rejects
ConsumedMalformed == \E i \in 1..Len(Enqueued) : Enqueued[i].type = "error"

\* C19: in buffered mode the step that consumes a malformed record leaves
\* the accumulated text, the maps, the tool calls, the finish reason and the
\* usage as they are and does not end the loop; from every state, a record
\* that follows a malformed one is processed as it is without it.
MalformedIgnoredBuffered ==
    /\ [](\A r \in Records :
            /\ GenerateStep(GenerateStep(buffered, Record("malformed", "")), r)
                  = GenerateStep(buffered, r)
            /\ transport.pc = "streaming" /\ ~sse.ended /\ sse.n < MaxRecords
                  => ENABLED Consume(r))
    /\ [][ConsumedMalformed
            => /\ buffered' = buffered
               /\ sse'.n = sse.n + 1 /\ ~sse'.ended]_vars

\* a malformed record came between two text deltas, and the buffered text
\* holds both
TextAroundMalformedBuffered ==
    /\ sse.n = 3
    /\ \E i \in 1..Len(stream.out) : stream.out[i].type = "error" /\ stream.out[i].rec = 2
    /\ buffered.accumulatedText = "aa"

\* the parts of out from position i on
PartsFrom(out, i) == SubSeq(out, i, Len(out))

\* C20: in streaming mode the step that consumes a malformed record
\* enqueues one error part and nothing else, leaves the open segments, the
\* name map, the accumulators and the stream-start flag as they are, and does
\* not close the stream; from every state, a record that follows a
\* malformed one is translated to the parts, and to the state, it is
\* translated to without it.
DecodeErrorIsolatedStream ==
    /\ [](\A r \in Records :
            LET k == sse.n + 1
                with == Transform(Transform(stream, Record("malformed", ""), k, includeRawChunks),
                                  r, k, includeRawChunks)
                without == Transform(stream, r, k, includeRawChunks)
            IN /\ [with EXCEPT !.out = <<>>] = [without EXCEPT !.out = <<>>]
               /\ PartsFrom(with.out, Len(stream.out) + 2)
                     = PartsFrom(without.out, Len(stream.out) + 1))
    /\ [][ConsumedMalformed
            => /\ Len(Enqueued) = 1
               /\ [stream' EXCEPT !.out = <<>>] = [stream EXCEPT !.out = <<>>]
               /\ SubSeq(stream'.out, 1, Len(stream.out)) = stream.out
               /\ sse'.n = sse.n + 1 /\ ~sse'.ended]_vars

\* a malformed record came while a text segment was open, and the next
\* delta went on in the same segment
SegmentContinuesAfterError ==
    \E i, j, m \in 1..Len(stream.out) :
        /\ i < j /\ j < m
        /\ stream.out[i].type = "text-start"
        /\ stream.out[j].type = "error"
        /\ stream.out[m].type = "text-delta"
        /\ stream.out[m].id = stream.out[i].id
        /\ stream.out[i].rec < stream.out[j].rec
        /\ \A n \in i..m : stream.out[n].type # "text-end"

(***************************************************************************)
(* Properties of concurrent calls on one model handle.                     *)
(***************************************************************************)
\* the locals of a call of the given kind and options once its body has
\* delivered the records fed, when no other call runs
Alone(kind, callOptions, fed) ==
    LET locals[i \in 0..Len(fed)] ==
            IF i = 0 THEN RequestLocals(kind, callOptions)
            ELSE RequestStep(kind, callOptions, locals[i - 1], fed[i], i)
    IN locals[Len(fed)]

\* the tool calls a call has produced so far
RequestToolCalls(req) ==
    IF req.kind = "stream" THEN StreamToolCalls(req.locals.out) ELSE req.locals.toolCalls

\* C21: whatever the interleaving of the records of two concurrent calls,
\* the parts, the text, the tool calls, the open segment ids, the name map,
\* the accumulators and the stream-start flag of each call are those of the
\* same call run alone on the records of its own body, and a step of one
\* call leaves the other call as it is.
PerRequestIsolation ==
    /\ [](\A q \in RequestIds :
            requests[q].locals
               = Alone(requests[q].kind, requests[q].callOptions, requests[q].fed))
    /\ [][\A q \in RequestIds :
            requests'[q] # requests[q]
               => \A p \in RequestIds \ {q} : requests'[p] = requests[p]]_vars

\* while both calls read their bodies, the first has recorded the name of
\* item fc_1 and resolved its call to it, and the second has resolved a call
\* of its own item fc_1 to no recorded name
ConcurrentCallsDiverge ==
    /\ requests[1].pc = "reading" /\ requests[2].pc = "reading"
    /\ requests[1].kind = "stream" /\ requests[2].kind = "generate"
    /\ Len(requests[1].fed) = 2 /\ Len(requests[2].fed) = 1
    /\ "fc_1" \in DOMAIN requests[1].locals.toolCallInfo
    /\ Len(RequestToolCalls(requests[1])) = 1
    /\ RequestToolCalls(requests[1])[1].toolName = Str("f")
    /\ Len(RequestToolCalls(requests[2])) = 1
    /\ RequestToolCalls(requests[2])[1].toolName = Str("unknown")

\* the stream-start parts of a stream
StreamStarts(out) == SelectSeq(out, LAMBDA p : p.type = "stream-start")

ArgsDelta(itemId, delta) ==
    [Record("json", "response.function_call_arguments.delta") EXCEPT
        !.item_id = Str(itemId), !.delta = Str(delta)]

\* a response.function_call_arguments.done record of an item
ArgsDone(itemId, name, arguments) ==
    [Record("json", "response.function_call_arguments.done") EXCEPT
        !.item_id = Str(itemId), !.name = name, !.arguments = arguments]

\* the arguments a done record may carry
EventArguments == {Undefined, Str("{e:1}"), Obj("{o:1}")}

\* the argument string accumulated for an item, "" when there is none
Accumulated(functionCallArgs, itemId) ==
    IF itemId \in DOMAIN functionCallArgs THEN functionCallArgs[itemId] ELSE ""

\* the last element of a sequence
Last(seq) == seq[Len(seq)]

\* C22: from every state, in both modes, two different argument deltas d1,
\* d2 of item fc_1 followed by done yield a tool call whose input is what was
\* accumulated before, then d1, then d2, whatever arguments the done record
\* carries, and leave no accumulator for the item; a second done then
\* yields the arguments of the record (a string as it is, an object
\* serialized), as does a done for an item with nothing accumulated.
ArgumentsAccumulatedInOrder ==
    \A d \in {<<"x", "y">>} : \A args \in EventArguments :
        LET done == ArgsDone("fc_1", Undefined, args)
            event == IF args.t = "object" THEN Str(args.v) ELSE args
            k == sse.n + 1
            raw == includeRawChunks
        IN /\ \A s2 \in {Transform(Transform(stream, ArgsDelta("fc_1", d[1]), k, raw),
                                    ArgsDelta("fc_1", d[2]), k, raw)} :
                /\ s2.functionCallArgs["fc_1"]
                      = Accumulated(stream.functionCallArgs, "fc_1") \o d[1] \o d[2]
                /\ \A s3 \in {Transform(s2, done, k, raw)} :
                      /\ Last(s3.out).type = "tool-call"
                      /\ Last(s3.out).input
                            = Str(Accumulated(stream.functionCallArgs, "fc_1") \o d[1] \o d[2])
                      /\ "fc_1" \notin DOMAIN s3.functionCallArgs
                      /\ \A s4 \in {Transform(s3, done, k, raw)} :
                            /\ Last(s4.out).type = "tool-call"
                            /\ Last(s4.out).input = event
           /\ \A g3 \in {GenerateStep(GenerateStep(GenerateStep(buffered,
                                ArgsDelta("fc_1", d[1])), ArgsDelta("fc_1", d[2])), done)} :
                /\ Last(g3.toolCalls).input
                      = Str(Accumulated(buffered.functionCallArgs, "fc_1") \o d[1] \o d[2])
                /\ "fc_1" \notin DOMAIN g3.functionCallArgs
                /\ \A g4 \in {GenerateStep(g3, done)} :
                      /\ Len(g4.toolCalls) = Len(buffered.toolCalls) + 2
                      /\ Last(g4.toolCalls).input = event
           /\ "fc_1" \notin DOMAIN stream.functionCallArgs
                 => Last(Transform(stream, done, k, raw).out).input = event
           /\ "fc_1" \notin DOMAIN buffered.functionCallArgs
                 => Last(GenerateStep(buffered, done).toolCalls).input = event

\* two deltas, a done and a second done of item fc_1 were consumed: the
\* first tool call carries the two deltas, the second the arguments of its
\* record
DeltasThenDoneTwice ==
    /\ sse.n = 4
    /\ Len(buffered.toolCalls) = 2
    /\ buffered.toolCalls[1].input = Str("xx")
    /\ buffered.toolCalls[2].input = Str("{}")
    /\ Len(StreamToolCalls(stream.out)) = 2
    /\ StreamToolCalls(stream.out)[1].input = Str("xx")
    /\ StreamToolCalls(stream.out)[2].input = Str("{}")
    /\ buffered.functionCallArgs = EmptyMap

(***************************************************************************)
(* Properties of the terminal event.                                       *)
(***************************************************************************)
\* a response.completed record whose response has the given status and usage
Completed(status, usage) ==
    [Record("json", "response.completed") EXCEPT
        !.response = Response(status, usage, Str("resp_1"))]

\* the status strings a terminal event may carry
Statuses ==
    {"stop", "completed", "length", "max_output_tokens", "tool_calls", "incomplete",
     "content_filter", "error", "failed", "cancelled", "in_progress", "Stop", ""}

\* the finish-reason table of the specification
FinishReasonTable ==
    [status \in Statuses |->
        IF status \in {"stop", "completed"} THEN "stop"
        ELSE IF status \in {"length", "max_output_tokens"} THEN "length"
        ELSE IF status \in {"tool_calls", "incomplete"} THEN "tool-calls"
        ELSE IF status = "content_filter" THEN "content-filter"
        ELSE IF status \in {"error", "failed"} THEN "error"
        ELSE "other"]

\* C23: every finish reason held by a finish part or by the buffered result
\* pairs a raw status with the unified kind the table gives for it; and from
\* every state reached by at most two records, in both modes,
\* response.completed with any status yields the kind of the table with the
\* status itself as the raw value, a response without status yields stop
\* with the raw value stop, and so does a record without response.
FinishReasonFollowsTable ==
    /\ buffered.finishReason.raw \in Statuses
    /\ buffered.finishReason.unified = FinishReasonTable[buffered.finishReason.raw]
    /\ \A i \in 1..Len(stream.out) :
          stream.out[i].type = "finish" =>
             /\ stream.out[i].finishReason.raw \in Statuses
             /\ stream.out[i].finishReason.unified
                   = FinishReasonTable[stream.out[i].finishReason.raw]
    /\ sse.n <= 2 =>
          /\ \A status \in Statuses :
                LET r == Completed(Str(status), NoUsageObject)
                    expected == [unified |-> FinishReasonTable[status], raw |-> status]
                IN /\ Last(Transform(stream, r, sse.n + 1, includeRawChunks).out).type = "finish"
                   /\ Last(Transform(stream, r, sse.n + 1, includeRawChunks).out).finishReason
                         = expected
                   /\ GenerateStep(buffered, r).finishReason = expected
          /\ \A r \in {Completed(Undefined, NoUsageObject), Record("json", "response.completed")} :
                /\ Last(Transform(stream, r, sse.n + 1, includeRawChunks).out).finishReason
                      = [unified |-> "stop", raw |-> "stop"]
                /\ GenerateStep(buffered, r).finishReason = [unified |-> "stop", raw |-> "stop"]

\* a response.completed record with status incomplete was consumed: the
\* stream finished, and the buffered result holds, tool-calls with the raw
\* value incomplete
IncompleteFinishedAsToolCalls ==
    /\ StreamFinishes(stream.out) # <<>>
    /\ Last(StreamFinishes(stream.out)).finishReason
          = [unified |-> "tool-calls", raw |-> "incomplete"]
    /\ buffered.finishReason = [unified |-> "tool-calls", raw |-> "incomplete"]

\* the usage objects a terminal event may carry: each count absent or
\* present, zero included
UsageObjects ==
    {NoUsageObject}
    \cup {UsageObject(i, o, c, r) : i \in {NoNum, Num(0), Num(5)}, o \in {NoNum, Num(3)},
                                    c \in {NoNum, Num(0), Num(2)}, r \in {NoNum, Num(1)}}

\* usage holds what reported holds and what is derived from it, nothing else
UsageFrom(usage, reported) ==
    /\ usage.inputTokens.total = reported.input_tokens
    /\ usage.outputTokens.total = reported.output_tokens
    /\ usage.inputTokens.cacheRead = reported.cached_tokens
    /\ usage.outputTokens.reasoning = reported.reasoning_tokens
    /\ usage.inputTokens.cacheWrite = NoNum
    /\ usage.inputTokens.noCache.has
          <=> (reported.input_tokens.has /\ reported.cached_tokens.has)
    /\ usage.inputTokens.noCache.has
          => usage.inputTokens.noCache.n = reported.input_tokens.n - reported.cached_tokens.n
    /\ usage.outputTokens.text.has
          <=> (reported.output_tokens.has /\ reported.reasoning_tokens.has)
    /\ usage.outputTokens.text.has
          => usage.outputTokens.text.n = reported.output_tokens.n - reported.reasoning_tokens.n

\* C24: the usage of every finish part and of the buffered result holds the
\* counts reported by the terminal event that set it, or nothing when no
\* terminal event has come; noCache and text are present exactly when both
\* their operands are, and are their difference; cacheWrite is absent; and
\* from every state reached by at most two records, in both modes,
\* response.completed with any combination of reported counts yields such a
\* usage.
UsageOnlyFromTerminalEvent ==
    /\ UsageFrom(buffered.usage, buffered.usage.raw)
    /\ StreamFinishes(stream.out) = <<>> => buffered.usage.raw = NoUsageObject
    /\ \A i \in 1..Len(stream.out) :
          IF stream.out[i].type = "finish"
          THEN UsageFrom(stream.out[i].usage, stream.out[i].usage.raw)
          ELSE stream.out[i].usage = EmptyUsage
    /\ sse.n <= 2 =>
          \A reported \in UsageObjects :
             LET r == Completed(Str("completed"), reported)
             IN /\ UsageFrom(Last(Transform(stream, r, sse.n + 1, includeRawChunks).out).usage,
                             reported)
                /\ UsageFrom(GenerateStep(buffered, r).usage, reported)

\* the terminal event reported 5 input tokens, 2 of them cached, and 3
\* output tokens without a reasoning count: noCache is 3 and text is absent
UsageDerivedWhereKnown ==
    /\ StreamFinishes(stream.out) # <<>>
    /\ Last(StreamFinishes(stream.out)).usage = buffered.usage
    /\ buffered.usage.inputTokens.total = Num(5)
    /\ buffered.usage.inputTokens.cacheRead = Num(2)
    /\ buffered.usage.inputTokens.noCache = Num(3)
    /\ buffered.usage.outputTokens.total = Num(3)
    /\ buffered.usage.outputTokens.text = NoNum
    /\ buffered.usage.outputTokens.reasoning = NoNum

(***************************************************************************)
(* Properties of the prompt conversion.                                    *)
(***************************************************************************)
\* the positions of the system messages of a prompt
SystemPositions(prompt_) == {i \in 1..Len(prompt_) : prompt_[i].role = "system"}

\* the texts of the system messages up to position n, in conversation
\* order, each but the first preceded by a blank line
SystemTextUpTo(prompt_, n) ==
    LET text[i \in 0..n] ==
            IF i = 0 THEN ""
            ELSE IF prompt_[i].role # "system" THEN text[i - 1]
            ELSE IF SystemPositions(prompt_) \cap 1..(i - 1) = {} THEN prompt_[i].text
            ELSE text[i - 1] \o "\n\n" \o prompt_[i].text
    IN text[n]

\* the texts an input item holds
ItemTexts(item) == {item.content[i].text : i \in 1..Len(item.content)}

\* C25: once convertToCodexInput has returned, instructions is the texts of
\* the system messages joined in conversation order by a blank line, or
\* "You are a helpful assistant." when the prompt has no system message; no
\* input item is a message with role system or holds the text of a system
\* message; and input is, message by message and in order, the items of the
\* messages that are not system messages: the prompt without its system
\* messages, and each message converted on its own, give the same items.
SystemOnlyInInstructions ==
    converted.called =>
        /\ converted.instructions
              = (IF SystemPositions(prompt) = {} THEN "You are a helpful assistant."
                 ELSE SystemTextUpTo(prompt, Len(prompt)))
        /\ \A i \in 1..Len(converted.input) :
              /\ converted.input[i].role # "system"
              /\ converted.input[i].type
                    \in {"message", "function_call", "function_call_output"}
              /\ \A j \in SystemPositions(prompt) :
                    prompt[j].text # "" => prompt[j].text \notin ItemTexts(converted.input[i])
        /\ converted.input
              = ConvertToCodexInput(SelectSeq(prompt, LAMBDA m : m.role # "system")).input
        /\ converted.input
              = Flatten([i \in 1..Len(prompt) |->
                           IF prompt[i].role = "system" THEN <<>>
                           ELSE ConvertToCodexInput(<<prompt[i]>>).input])

\* a prompt of a system message, a user message and a second system message
\* was converted: the instructions join the two, the input holds the user
\* message alone
TwoSystemMessagesJoined ==
    /\ converted.called
    /\ prompt = <<SystemMessage("Be brief."), Message("user", <<TextPart("hi")>>),
                  SystemMessage("Use tools.")>>
    /\ converted.instructions = "Be brief.\n\nUse tools."
    /\ Len(converted.input) = 1
    /\ converted.input[1].role = "user"

\* the names a done record may carry
EventNames == {Undefined, Str("g"), Str("f2")}

\* the names that output_item.added records of named function-call items
\* have recorded so far, by item id: those of the tool-input-start parts
RecordedNames(out) ==
    LET starts == SelectSeq(out, LAMBDA p : p.type = "tool-input-start")
        names[i \in 0..Len(starts)] ==
            IF i = 0 THEN EmptyMap
            ELSE MapSet(names[i - 1], starts[i].id.v, starts[i].toolName.v)
    IN names[Len(starts)]

\* C27: in both modes the name map holds exactly the names recorded by
\* output_item.added records of function-call items with a name; from every
\* state, a done record of item fc_1 is resolved to the name recorded for
\* fc_1 when there is one, whatever name the record carries, else to the
\* name on the record, else to "unknown"; and a done record without item id
\* is resolved to the name on the record, else to "unknown".
ToolNameResolvedInOrder ==
    /\ stream.toolCallInfo = RecordedNames(stream.out)
    /\ buffered.toolCallInfo = RecordedNames(stream.out)
    /\ \A name \in EventNames :
          LET known == ArgsDone("fc_1", name, Str("{}"))
              anonymous == [known EXCEPT !.item_id = Undefined]
              fallback == IF name = Undefined THEN Str("unknown") ELSE name
              expected == IF "fc_1" \in DOMAIN RecordedNames(stream.out)
                          THEN Str(RecordedNames(stream.out)["fc_1"])
                          ELSE fallback
              k == sse.n + 1
          IN /\ Last(Transform(stream, known, k, includeRawChunks).out).toolName = expected
             /\ Last(GenerateStep(buffered, known).toolCalls).toolName = expected
             /\ Last(Transform(stream, anonymous, k, includeRawChunks).out).toolName = fallback
             /\ Last(GenerateStep(buffered, anonymous).toolCalls).toolName = fallback

\* a done record of item fc_1 named g came before and after the item was
\* added with the name f: the first call is named g, the second f
RecordedNameKept ==
    /\ sse.n = 3
    /\ "fc_1" \in DOMAIN stream.toolCallInfo
    /\ Len(buffered.toolCalls) = 2
    /\ buffered.toolCalls[1].toolName = Str("g")
    /\ buffered.toolCalls[2].toolName = Str("f")
    /\ buffered.toolCalls[2].input = Str("{}")
    /\ StreamToolCalls(stream.out) = buffered.toolCalls

(***************************************************************************)
(* Properties of the text and reasoning segments of a stream.              *)
(***************************************************************************)
\* the ids of the segments of a kind ("text" or "reasoning") that the first
\* n parts of out have started and not ended
OpenSegments(out, kind, n) ==
    {out[i].id : i \in {i \in 1..n :
        /\ out[i].type = kind \o "-start"
        /\ \A j \in (i + 1)..n : ~(out[j].type = kind \o "-end" /\ out[j].id = out[i].id)}}

\* C28: after every part of the stream at most one text segment and at most
\* one reasoning segment is open; the open segment is the one whose id the
\* transform holds; every delta carries the id of the segment that is open
\* when it is enqueued; and every start carries an id that no earlier start
\* carries, so that a delta that comes after its segment was ended belongs
\* to a new segment with a start of its own.
OneOpenSegmentPerKind ==
    \A kind \in {"text", "reasoning"} :
        LET out == stream.out
            current == IF kind = "text" THEN stream.currentTextId
                       ELSE stream.currentReasoningId
        IN /\ \A n \in 0..Len(out) : Cardinality(OpenSegments(out, kind, n)) <= 1
           /\ OpenSegments(out, kind, Len(out))
                 = (IF Truthy(current) THEN {current} ELSE {})
           /\ \A j \in 1..Len(out) :
                 /\ out[j].type = kind \o "-delta"
                       => OpenSegments(out, kind, j - 1) = {out[j].id}
                 /\ out[j].type = kind \o "-start"
                       => /\ OpenSegments(out, kind, j - 1) = {}
                          /\ \A i \in 1..(j - 1) :
                                out[i].type = kind \o "-start" => out[i].id # out[j].id
                          /\ j < Len(out)
                          /\ out[j + 1].type = kind \o "-delta"
                          /\ out[j + 1].id = out[j].id

\* a text delta came after its segment was ended: the stream holds a start,
\* a delta and an end of one id, then a start and a delta of another
SegmentReopened ==
    \E i \in 1..Len(stream.out) :
        /\ i + 4 <= Len(stream.out)
        /\ stream.out[i].type = "text-start"
        /\ stream.out[i + 1].type = "text-delta" /\ stream.out[i + 1].id = stream.out[i].id
        /\ stream.out[i + 2].type = "text-end" /\ stream.out[i + 2].id = stream.out[i].id
        /\ stream.out[i + 3].type = "text-start" /\ stream.out[i + 3].id # stream.out[i].id
        /\ stream.out[i + 4].type = "text-delta"
        /\ stream.out[i + 4].id = stream.out[i + 3].id
        /\ stream.currentTextId = stream.out[i + 3].id

\* the done records: those a behaviour is fed, and one of an item that no
\* record has named
DoneRecords ==
    {r \in Records : r.type = "response.function_call_arguments.done"}
    \cup {ArgsDone("fc_2", Undefined, Undefined)}

\* C29: the stream holds as many tool-call parts as done records were
\* consumed; a step that enqueues a tool-call enqueues one, as its last
\* part, and no tool-input-delta; and from every state a done record is
\* translated, after stream-start and the raw part if any, to tool-input-end
\* of its item id followed at once by the tool-call when it has an item id,
\* to the tool-call alone when it has none, and leaves no accumulated
\* arguments of the item from which a later delta could go on.
ToolCallFollowsInputEnd ==
    /\ [](/\ Len(StreamToolCalls(stream.out)) = Len(buffered.toolCalls)
          /\ \A r \in DoneRecords :
                \A s \in {Transform(stream, r, sse.n + 1, includeRawChunks)} :
                   LET new == SelectSeq(PartsFrom(s.out, Len(stream.out) + 1),
                                        LAMBDA p : p.type \notin {"stream-start", "raw"})
                   IN /\ Last(s.out) = Last(new)
                      /\ Last(new).type = "tool-call"
                      /\ IF Truthy(r.item_id)
                         THEN /\ Len(new) = 2
                              /\ new[1].type = "tool-input-end"
                              /\ new[1].id = r.item_id
                              /\ s.out[Len(s.out) - 1] = new[1]
                              /\ r.item_id.v \notin DOMAIN s.functionCallArgs
                         ELSE Len(new) = 1)
    /\ [][(\E i \in 1..Len(Enqueued) : Enqueued[i].type = "tool-call")
            => /\ Cardinality({i \in 1..Len(Enqueued) : Enqueued[i].type = "tool-call"}) = 1
               /\ Last(Enqueued).type = "tool-call"
               /\ \A i \in 1..Len(Enqueued) : Enqueued[i].type # "tool-input-delta"
               /\ Len(buffered'.toolCalls) = Len(buffered.toolCalls) + 1]_vars

\* item fc_1 was added, got an argument delta and was done: the stream ends
\* with its tool-input-start, tool-input-delta, tool-input-end and tool-call
InputEndThenCall ==
    /\ Len(stream.out) >= 4
    /\ LET n == Len(stream.out)
       IN /\ stream.out[n - 3].type = "tool-input-start" /\ stream.out[n - 3].id = Str("fc_1")
          /\ stream.out[n - 2].type = "tool-input-delta" /\ stream.out[n - 2].id = Str("fc_1")
          /\ stream.out[n - 1].type = "tool-input-end" /\ stream.out[n - 1].id = Str("fc_1")
          /\ stream.out[n].type = "tool-call" /\ stream.out[n].input = Str("x")
          /\ stream.out[n].rec = stream.out[n - 1].rec

(***************************************************************************)
(* Properties of the refresh token sent to the token endpoint.             *)
(***************************************************************************)
\* the refresh token in force once the first n exchanges have been made:
\* the configured one, replaced by each successful exchange whose answer
\* carried a new token
CurrentRefreshToken(n) ==
    LET current[p \in 0..n] ==
            IF p = 0 THEN OptionsRefreshToken
            ELSE IF rtPromise[p] = "fulfilled" /\ rtReceived[p].rotates THEN RotatedToken(p)
            ELSE current[p - 1]
    IN current[n]

\* C30: in refresh-token mode the first exchange is called with the
\* configured refresh token, and every later one with the token in force
\* after the exchanges before it, which have all completed: the token of the
\* session when one exists, the rotated token when the last successful
\* answer carried one; a token that a successful exchange has replaced is
\* not sent again; and the step that calls the exchange sends the token of
\* the session it finds, or the configured token when there is no session.
ExchangeSendsCurrentToken ==
    /\ [](\A i \in 1..Len(rtSent) :
            /\ \A p \in 1..(i - 1) : rtPromise[p] \in {"fulfilled", "rejected"}
            /\ rtSent[i] = CurrentRefreshToken(i - 1)
            /\ \A p \in 1..(i - 1) :
                  (rtPromise[p] = "fulfilled" /\ rtReceived[p].rotates)
                     => rtSent[i] # rtSent[p])
    /\ [](refreshSession.present
             => refreshSession.refreshToken = CurrentRefreshToken(Len(rtSent)))
    /\ [][Len(rtSent') > Len(rtSent)
            => /\ rtSent' = Append(rtSent, IF refreshSession.present
                                           THEN refreshSession.refreshToken
                                           ELSE OptionsRefreshToken)
               /\ \A p \in PromiseIds : rtPromise[p] # "pending"]_vars

\* the first exchange succeeded with a new refresh token, its session has
\* come near its expiry, and the second exchange is in flight with that token
SecondExchangeSendsRotatedToken ==
    /\ Len(rtSent) = 2
    /\ rtSent[1] = OptionsRefreshToken
    /\ rtPromise[1] = "fulfilled" /\ rtReceived[1].rotates
    /\ rtSent[2] = RotatedToken(1)
    /\ rtPromise[2] = "pending"

\* the parts of an assistant message that are text or reasoning, in order
TextOrReasoning(message) ==
    SelectSeq(message.content, LAMBDA part : part.type \in {"text", "reasoning"})

\* the tool-call parts of an assistant message, in order
ToolCalls(message) == SelectSeq(message.content, LAMBDA part : part.type = "tool-call")

\* the text an assistant's text or reasoning part is sent as
SentText(part) ==
    IF part.type = "reasoning" THEN "<reasoning>\n" \o part.text \o "\n</reasoning>"
    ELSE part.text

\* the items of input that the messages before position n produced
ItemsBefore(prompt_, n) ==
    LET count[i \in 0..(n - 1)] ==
            IF i = 0 THEN 0
            ELSE count[i - 1] + Len(ConvertToCodexInput(<<prompt_[i]>>).input)
    IN count[n - 1]

\* C31: once convertToCodexInput has returned, the items of input are those
\* of the messages in message order, and the items of each assistant message
\* are: one assistant message item when the message has a text or reasoning
\* part (none otherwise), whose content is those parts in order as
\* output_text, then one function_call item per tool-call part in part
\* order, with the part's toolCallId as id and call_id, its toolName and a
\* string as arguments; so every function call comes after the message's
\* text item, also when its part precedes a text part.
AssistantTextThenCalls ==
    converted.called =>
        /\ Len(converted.input) = ItemsBefore(prompt, Len(prompt) + 1)
        /\ \A n \in 1..Len(prompt) :
              prompt[n].role = "assistant" =>
                 \A texts \in {TextOrReasoning(prompt[n])} :
                 \A calls \in {ToolCalls(prompt[n])} :
                 \A first \in {ItemsBefore(prompt, n)} :
                 \A t \in {IF Len(texts) > 0 THEN 1 ELSE 0} :
                    /\ ItemsBefore(prompt, n + 1) = first + t + Len(calls)
                    /\ first + t + Len(calls) <= Len(converted.input)
                    /\ t = 1 =>
                          /\ converted.input[first + 1].type = "message"
                          /\ converted.input[first + 1].role = "assistant"
                          /\ converted.input[first + 1].content
                                = [i \in 1..Len(texts) |->
                                     [type |-> "output_text", text |-> SentText(texts[i])]]
                    /\ \A k \in 1..Len(calls) :
                          /\ converted.input[first + t + k].type = "function_call"
                          /\ converted.input[first + t + k].id = calls[k].toolCallId
                          /\ converted.input[first + t + k].call_id = calls[k].toolCallId
                          /\ converted.input[first + t + k].name = calls[k].toolName
                          /\ converted.input[first + t + k].arguments.t = "string"
                          /\ converted.input[first + t + k].arguments.v = calls[k].input.v

\* an assistant message whose first part is a tool call and whose later
\* parts are text, a second tool call, reasoning and text was converted
\* after a user message: the text item follows the user item, the two
\* function calls follow the text item
CallPartBeforeTextConverted ==
    /\ converted.called
    /\ Len(prompt) = 2
    /\ prompt[1] = Message("user", <<TextPart("hi")>>)
    /\ prompt[2].role = "assistant"
    /\ Len(prompt[2].content) = 5
    /\ prompt[2].content[1].type = "tool-call"
    /\ Len(converted.input) = 4
    /\ converted.input[1].role = "user"
    /\ converted.input[2].role = "assistant"
    /\ Len(converted.input[2].content) = 3
    /\ converted.input[2].content[2].text = "<reasoning>\nr\n</reasoning>"
    /\ converted.input[3].call_id = "call_2"
    /\ converted.input[4].call_id = "call_3"
    /\ converted.input[4].arguments = Str("{b:2}")

(***************************************************************************)
(* Properties of the tool-input parts and the tool calls.                  *)
(***************************************************************************)
\* the positions of the tool-input parts that belong to the call enqueued
\* at position i of out: the tool-input-end enqueued just before it by the
\* same transform call, and the earlier tool-input-start and
\* tool-input-delta parts for the same item
ToolInputPartsOf(out, i) ==
    IF i > 1 /\ out[i - 1].type = "tool-input-end" /\ out[i - 1].rec = out[i].rec
    THEN {i - 1} \cup {j \in 1..(i - 1) :
                          /\ out[j].type \in {"tool-input-start", "tool-input-delta"}
                          /\ out[j].id = out[i - 1].id}
    ELSE {}

\* C32: the id of every tool-input-start, tool-input-delta and
\* tool-input-end part of a function call equals the toolCallId of the
\* tool-call part enqueued for that call.
ToolInputIdIsToolCallId ==
    \A i \in 1..Len(stream.out) :
        stream.out[i].type = "tool-call" =>
            \A j \in ToolInputPartsOf(stream.out, i) : stream.out[j].id = stream.out[i].id

\* C33: every tool call made from a function_call_arguments.done record
\* carries a string as input, in the stream and in the buffered result.
ToolCallInputIsString ==
    /\ \A i \in 1..Len(stream.out) :
          stream.out[i].type = "tool-call" => stream.out[i].input.t = "string"
    /\ \A i \in 1..Len(buffered.toolCalls) : buffered.toolCalls[i].input.t = "string"

(***************************************************************************)
(* Properties of the end of a response.                                    *)
(***************************************************************************)
\* the parts that carry text, reasoning, tool input, a tool call or metadata
ContentPartTypes ==
    {"text-start", "text-delta", "reasoning-start", "reasoning-delta",
     "tool-input-start", "tool-input-delta", "tool-input-end", "tool-call",
     "response-metadata", "finish"}

\* C34: the stream holds at most one finish part, and no text, reasoning,
\* tool-input, tool-call, response-metadata or finish part after it,
\* whatever records follow response.completed.
FinishOnceAndLast ==
    \A i \in 1..Len(stream.out) :
        stream.out[i].type = "finish" =>
            \A j \in (i + 1)..Len(stream.out) : stream.out[j].type \notin ContentPartTypes

\* C35: while the body has delivered no response.completed record, and so
\* when it ends without one, doGenerate has thrown nothing and its result
\* has finish reason stop (raw stop), a usage with every field undefined
\* and no raw, no response id, and as content the text the deltas gave, if
\* any, followed by the tool calls the done records gave.
TruncatedBodyFinishesStop ==
    (transport.pc = "streaming" /\ StreamFinishes(stream.out) = <<>>) =>
        \A result \in {GenerateResult(buffered)} :
            /\ buffered.thrown = Undefined
            /\ result.finishReason = [unified |-> "stop", raw |-> "stop"]
            /\ \A f \in {"total", "noCache", "cacheRead", "cacheWrite"} :
                  ~result.usage.inputTokens[f].has
            /\ \A f \in {"total", "text", "reasoning"} : ~result.usage.outputTokens[f].has
            /\ ~result.usage.hasRawKey
            /\ result.responseId = Undefined
            /\ \A text \in {StreamText(stream.out)} :
               \A calls \in {StreamToolCalls(stream.out)} :
               \A t \in {IF text # "" THEN 1 ELSE 0} :
                  /\ Len(result.content) = t + Len(calls)
                  /\ t = 1 => result.content[1] = [type |-> "text", text |-> text]
                  /\ \A i \in 1..Len(calls) :
                        /\ result.content[t + i].type = "tool-call"
                        /\ result.content[t + i].call.toolName = calls[i].toolName
                        /\ result.content[t + i].call.input = calls[i].input

\* the body ended after a text delta and a done record and without a
\* response.completed record: the result holds the text and the call
TruncatedAfterTextAndCall ==
    /\ transport.pc = "streaming"
    /\ sse.ended
    /\ sse.n >= 2
    /\ StreamFinishes(stream.out) = <<>>
    /\ buffered.accumulatedText # ""
    /\ Len(buffered.toolCalls) = 1
    /\ Len(GenerateResult(buffered).content) = 2
    /\ GenerateResult(buffered).finishReason.unified = "stop"

(***************************************************************************)
(* Properties of a failed refresh of the auth file.                        *)
(***************************************************************************)
\* C36: when doRefreshToken fails (its promise is rejected: no refresh
\* token, a failed exchange, or a failed write of the auth file), the cache
\* is empty or holds the record that is in the auth file.
FailedRefreshLeavesCacheAsOnDisk ==
    [][\A p \in PromiseIds :
         (faPromise[p] = "pending" /\ faPromise'[p] = "rejected" /\ cachedAuth' # 0)
            => /\ authFile'.exists
               /\ faHeap'[cachedAuth'] = authFile'.rec]_vars

(***************************************************************************)
(* Liveness of the refresh-token session manager.                          *)
(***************************************************************************)
\* C37: when every token exchange completes, every getHeaders call returns
\* headers or throws, the slot becomes empty after it was filled, and a
\* caller that joined an exchange does not stay at its await once the
\* exchange has completed.
EveryCallReturns ==
    /\ \A c \in Callers :
          (rtPc[c] # "idle")
             ~> (/\ rtPc[c] = "idle"
                 /\ rtReturned.kind \in {"headers", "error"}
                 /\ rtReturned.caller = c)
    /\ (refreshSessionPromise # 0) ~> (refreshSessionPromise = 0)
    /\ \A c \in Callers :
          (rtPc[c] = "join" /\ rtPromise[rtAwait[c]] # "pending") ~> (rtPc[c] # "join")

\* a caller that joined the exchange in flight has resumed after it
\* completed, and the starter has emptied the slot
JoinerResumed ==
    \E c \in Callers :
        /\ rtPc[c] = "ret"
        /\ rtPath[c] = "join"
        /\ refreshSessionPromise = 0
        /\ refreshSession.present

(***************************************************************************)
(* Properties of the headers of refresh-token mode.                        *)
(***************************************************************************)
\* C38: a getHeaders call that is about to build its headers finds a
\* session; no call has failed on an absent session; and the access token
\* and the account id of the headers a call returned are those of one
\* exchange, which has completed with success.
HeadersFromOneExchange ==
    /\ \A c \in Callers :
          rtPc[c] = "ret" =>
             /\ refreshSession.present
             /\ refreshSession.accessToken = refreshSession.accountId
    /\ rtReturned.kind # "typeError"
    /\ rtReturned.kind = "headers" =>
          /\ rtReturned.Authorization = rtReturned.accountId
          /\ rtReturned.Authorization \in PromiseIds
          /\ rtPromise[rtReturned.Authorization] = "fulfilled"
          /\ ExchangeSucceeds(rtReceived[rtReturned.Authorization])

\* a call returned the headers of the second exchange while another call
\* is under way
HeadersOfSecondExchange ==
    /\ rtReturned.kind = "headers"
    /\ rtReturned.Authorization = 2
    /\ rtReturned.accountId = 2
    /\ \E c \in Callers : rtPc[c] # "idle" /\ c # rtReturned.caller

====
